---- MODULE Spec2Model ----
(***************************************************************************)
(* Event-driven task lifecycle of momento-a2a-agent: the executor, the     *)
(* per-context event bus (topic log + poller + listeners), the execution   *)
(* event queue, the result manager, the task store and the request handler *)
(* (sendMessage, sendMessageStream, cancelTask).                            *)
(*                                                                         *)
(* The topic service is a per-context append-only log whose items carry    *)
(* their index as topic_sequence_number; topicSubscribe(ctx, n) returns the *)
(* items from sequence n on.  Cache and topic calls succeed.  uuidv4() is   *)
(* a value that differs from every other id in the model.                  *)
(***************************************************************************)
EXTENDS Integers, Sequences, FiniteSets, TLC

None == "none"

\* ---- bounds -------------------------------------------------------------
MaxReq == 2          \* sendMessage / sendMessageStream calls
MaxCancel == 1       \* cancelTask calls

Reqs == 1..MaxReq
Cancels == 1..MaxCancel

\* ---- identifiers ---------------------------------------------------------
ClientContexts == {"c1"}
ToStr(r) == CASE r = 1 -> "1" [] r = 2 -> "2" [] r = 3 -> "3" [] OTHER -> "4"
\* uuidv4() of request_handler.ts:75 (the request's own context)
HandlerUuid(r) == "h" \o ToStr(r)
\* uuidv4() of initializeTask for contextId
ExecUuid(r) == "e" \o ToStr(r)
\* uuidv4() of initializeTask for the task id
TaskUuid(r) == "t" \o ToStr(r)
\* uuidv4() of cancelTask's synthetic agent message
CancelUuid(k) == "x" \o ToStr(k)

\* contexts of stand-alone queues
QueueContexts == {"c1", "c2"}
Contexts == ClientContexts \cup QueueContexts \cup {HandlerUuid(r) : r \in Reqs} \cup {ExecUuid(r) : r \in Reqs}
TaskIds == {TaskUuid(r) : r \in Reqs}
\* messageIds a client may choose: request r picks among the first r ids
ClientMsgIds(r) == {"m" \o ToStr(i) : i \in 1..r}

\* ---- data ---------------------------------------------------------------
TextPart(s) == [kind |-> "text", text |-> s]
Msg(id, parts) == [messageId |-> id, parts |-> parts]
NoMsg == Msg(None, <<>>)
UserParts == <<TextPart("hello")>>

TerminalStates == {"completed", "failed", "canceled", "rejected"}
\* a terminal check that knows only the state completed
isFinalCompletedOnly(state) == state = "completed"
isFinal(state) == state \in TerminalStates

TaskEvent(id, ctx, state, msg, history) ==
  [kind |-> "task", taskId |-> id, contextId |-> ctx, state |-> state,
   msg |-> msg, final |-> FALSE, history |-> history]
\* a status-update that is never marked final
StatusUpdateNeverFinal(id, ctx, state, msg, final) ==
  [kind |-> "status-update", taskId |-> id, contextId |-> ctx, state |-> state,
   msg |-> msg, final |-> FALSE, history |-> <<>>]
StatusUpdate(id, ctx, state, msg, final) ==
  [kind |-> "status-update", taskId |-> id, contextId |-> ctx, state |-> state,
   msg |-> msg, final |-> final, history |-> <<>>]
MessageEvent(ctx, msg) ==
  [kind |-> "message", taskId |-> None, contextId |-> ctx, state |-> None,
   msg |-> msg, final |-> FALSE, history |-> <<>>]

Task(id, ctx, state, msg, history) ==
  [id |-> id, contextId |-> ctx, state |-> state, msg |-> msg, history |-> history]
\* "undefined" where a Task / an event is expected
NoTask == Task(None, None, None, NoMsg, <<>>)
NoEvent == [kind |-> None, taskId |-> None, contextId |-> None, state |-> None,
            msg |-> NoMsg, final |-> FALSE, history |-> <<>>]

HasMsgId(history, id) == \E i \in 1..Len(history) : history[i].messageId = id
CountMsgId(history, id) == Cardinality({i \in 1..Len(history) : history[i].messageId = id})


\* ---- Task Store (last writer wins) ---------------------------------------
save(st, task) == [st EXCEPT ![task.id] = task]
load(st, id) == IF id \in DOMAIN st THEN st[id] ELSE NoTask

\* ---- Result Manager -------------------------------------------------------
\* history append / prepend, deduplicated by messageId
AppendIfNew(history, m) ==
  IF HasMsgId(history, m.messageId) THEN history ELSE Append(history, m)
PrependIfNew(history, m) ==
  IF HasMsgId(history, m.messageId) THEN history ELSE <<m>> \o history

\* the status-update branch applied to a task snapshot
ReduceStatus(task, e) ==
  [task EXCEPT !.state = e.state, !.msg = e.msg,
               !.history = IF e.msg = NoMsg THEN @ ELSE AppendIfNew(@, e.msg)]

\* ResultManager.processEvent: the manager's fields and the store after event e
processEvent(cur, latestUserMessage, finalMsg, st, e) ==
  CASE e.kind = "message" ->
         [cur |-> cur, finalMsg |-> e.msg, store |-> st]
    [] e.kind = "task" ->
         LET t == Task(e.taskId, e.contextId, e.state, e.msg,
                       IF latestUserMessage = NoMsg THEN e.history
                       ELSE PrependIfNew(e.history, latestUserMessage))
         IN [cur |-> t, finalMsg |-> finalMsg, store |-> save(st, t)]
    [] e.kind = "status-update" ->
         IF cur # NoTask /\ cur.id = e.taskId
         THEN LET t == ReduceStatus(cur, e)
              IN [cur |-> t, finalMsg |-> finalMsg, store |-> save(st, t)]
         ELSE IF cur = NoTask /\ e.taskId # None /\ load(st, e.taskId) # NoTask
         THEN LET t == ReduceStatus(load(st, e.taskId), e)
              IN [cur |-> t, finalMsg |-> finalMsg, store |-> save(st, t)]
         ELSE [cur |-> cur, finalMsg |-> finalMsg, store |-> st]
    [] OTHER -> [cur |-> cur, finalMsg |-> finalMsg, store |-> st]

\* ---- Executor ---------------------------------------------------------------
\* what the user handler may do: return a string, a parts record, an empty
\* record, a {kind: "task"} partial (with or without status / state / message),
\* or throw
HandlerString == "Echo: hello"
HandlerParts == <<TextPart("part result")>>
HandlerMsg == Msg("ma", <<TextPart("full task")>>)
Result(tag, hasStatus, state, msg) ==
  [tag |-> tag, hasStatus |-> hasStatus, state |-> state, msg |-> msg]
NoHandlerResult == Result("none", FALSE, None, NoMsg)
PartialStates == {"completed", "input-required", None}
HandlerResults ==
  {Result("string", FALSE, None, NoMsg), Result("parts", FALSE, None, NoMsg),
   Result("empty", FALSE, None, NoMsg), Result("throw", FALSE, None, NoMsg),
   Result("task", FALSE, None, NoMsg)}
  \cup {Result("task", TRUE, s, HandlerMsg) : s \in PartialStates}
  \cup {Result("task", TRUE, "completed", NoMsg)}

\* the handler outcomes the request-level specifications draw from
MainResults ==
  {Result("string", FALSE, None, NoMsg), Result("throw", FALSE, None, NoMsg),
   Result("task", TRUE, "input-required", HandlerMsg)}

\* initializeTask: id and contextId of the executor's task
initializeTask(r, base, message) ==
  [id |-> IF base # NoTask THEN base.id
          ELSE IF message.taskId # None THEN message.taskId ELSE TaskUuid(r),
   contextId |-> IF message.contextId # None THEN message.contextId
                 ELSE IF base # NoTask THEN base.contextId ELSE ExecUuid(r)]

\* a failure text that drops the prefix
FailedTextNoPrefix(err) == err
FailedText(err) == "Agent execution failed: " \o err

\* the status of resultTask after the result has been translated; state None
\* stands for the thrown Error of the try block
ResultStatus(message, res) ==
  CASE res.tag = "string" ->
         [state |-> "completed", msg |-> Msg(message.messageId, <<TextPart(HandlerString)>>)]
    [] res.tag = "parts" ->
         [state |-> "completed", msg |-> Msg(message.messageId, HandlerParts)]
    [] res.tag = "task" /\ res.hasStatus ->
         IF res.msg = NoMsg \/ res.state = None
         THEN [state |-> None, msg |-> NoMsg]
         ELSE [state |-> res.state, msg |-> res.msg]
    [] OTHER -> [state |-> "submitted", msg |-> Msg(message.messageId, message.parts)]

\* a catch block whose failed update is not marked final
FinalUpdateThrowNotFinal(task, message, res) ==
  LET st == ResultStatus(message, res) IN
  IF res.tag = "throw" \/ st.state = None
  THEN StatusUpdate(task.id, task.contextId, "failed",
                    Msg(message.messageId, <<TextPart(FailedText("boom"))>>), FALSE)
  ELSE StatusUpdate(task.id, task.contextId, st.state, st.msg, TRUE)

\* the final status-update execute publishes for a handler outcome
FinalUpdate(task, message, res) ==
  LET st == ResultStatus(message, res) IN
  IF res.tag = "throw"
  THEN StatusUpdate(task.id, task.contextId, "failed",
                    Msg(message.messageId, <<TextPart(FailedText("boom"))>>), TRUE)
  ELSE IF st.state = None
  THEN StatusUpdate(task.id, task.contextId, "failed",
                    Msg(message.messageId, <<TextPart(FailedText("invalid task"))>>), TRUE)
  ELSE StatusUpdate(task.id, task.contextId, st.state, st.msg, TRUE)

\* ---- state ------------------------------------------------------------------
VARIABLES
  topic,            \* topic service: contextId -> sequence of published events
  store,            \* task store: taskId -> task snapshot (NoTask = absent)
  pollers,          \* MomentoEventBus.pollers: contextId -> seqNum (NoPoller = no entry)
  contextListeners, \* MomentoEventBus.contextListeners: contextId -> owning queue (0 = no entry)
  attached,         \* queues whose filtered listener is attached to the emitter
  ppage,            \* MomentoEventBus.pollers: contextId -> seqPage of the poller
  orphans,          \* aborted poll loops whose topicSubscribe request is still in flight
  hole,             \* topic service: the sequence range of a context it no longer holds
  notes,            \* "discontinuity" notifications the bus has emitted, in order
  recv,             \* per listener: topic sequence numbers of the events it was called with
  calls,            \* per context: how often it was registered / unregistered, and the last call
  arts,             \* ResultManager.currentTask.artifacts
  sarts,            \* Task Store: the artifacts of each stored task
  stream,           \* the events a Result Manager has been handed, in order
  seeded,           \* the Task Store as it was before the Result Manager's first event
  rid,              \* request: params.id of resubscribe / getTask
  rhl,              \* request: params.historyLength of getTask
  pushNotifications,\* agentCard.capabilities.pushNotifications: "unset" | "false" | "true"
  pushConfig,       \* cache: value under the key "push-config:" + taskId
  cache,            \* Momento cache of MomentoTaskStore: key -> stored body
  tsave,            \* MomentoTaskStore: the task object handed to save, its value at the
                    \* call, what load returned, and the uuidv4() values used so far
  http,             \* MomentoClient.makeRequest: the fetches, the waits and the outcome
  mem,              \* InMemoryTaskStore: the clock, the stored entry of one task, its timer
  rop,              \* request: "send" | "stream"
  rmsg,             \* request: params.message
  rpc,              \* request: "idle" | "wait" | "returned" | "failed"
  rctx,             \* request: contextId of the handler
  rresult,          \* request: what the call returned / threw
  rtimer,           \* sendMessage's 30 s timer: "off" | "armed" | "fired"
  qbuf,             \* ExecutionEventQueue.eventQueue of the request's queue
  qstopped,         \* ExecutionEventQueue.stopped
  gpc,              \* events() generator: "running" | "atYield" | "ended"
  cur,              \* ResultManager.currentTask
  finalMsg,         \* ResultManager.finalMessageResult
  epc,              \* execute(): "off" | "pubTask" | "pubWorking" | "handler" | "done"
  etask,            \* execute(): id and contextId of its task
  execLog,          \* events execute() has published, in order
  hres,             \* execute(): what the handler returned / threw
  efail,            \* execute(): one of its publish calls failed
  yielded,          \* events a stream has yielded to its consumer, in order
  cpc,              \* cancelTask: "idle" | "loaded" | "done" | "failed"
  ctask,            \* cancelTask: the loaded task
  crunning,         \* cancelTask: the task's handler was running when the call was made
  cresult           \* cancelTask: what the call returned / threw

busVars == <<topic, pollers, contextListeners, attached>>
busxVars == <<ppage, orphans, hole, notes, recv, calls>>
cliVars == <<cache, tsave, http, mem>>
extVars == <<arts, sarts, stream, seeded, rid, rhl, pushNotifications, pushConfig, cliVars>>
reqVars == <<rop, rmsg, rpc, rctx, rresult, rtimer>>
queueVars == <<qbuf, qstopped, gpc>>
rmVars == <<cur, finalMsg>>
execVars == <<epc, etask, execLog, hres, efail>>
cancelVars == <<cpc, ctask, crunning, cresult>>
vars == <<topic, store, pollers, contextListeners, attached, ppage, orphans, hole, notes,
          recv, calls, arts, sarts, stream, seeded, rid, rhl,
          pushNotifications, pushConfig, cache, tsave, http, mem, rop,
          rmsg, rpc, rctx,
          rresult, rtimer, qbuf, qstopped, gpc, cur, finalMsg, epc, etask, execLog,
          hres, efail, yielded, cpc, ctask, crunning, cresult>>

NoPoller == -1
\* params.historyLength is absent (or not a non-negative number)
NoHistoryLength == -1
\* the topic service holds every item of the context
NoHole == [lo |-> 0, hi |-> -1, page |-> 0]
NoResult == [kind |-> None, task |-> NoTask, msg |-> NoMsg, error |-> None]
TaskResult(t) == [kind |-> "task", task |-> t, msg |-> NoMsg, error |-> None]
MessageResult(m) == [kind |-> "message", task |-> NoTask, msg |-> m, error |-> None]
ErrorResult(err) == [kind |-> "error", task |-> NoTask, msg |-> NoMsg, error |-> err]

UserMessage(id, ctx, tid) ==
  [messageId |-> id, contextId |-> ctx, taskId |-> tid, parts |-> UserParts]
NoUserMessage == [messageId |-> None, contextId |-> None, taskId |-> None, parts |-> <<>>]
\* taskIds a client may name in request r: the task of an earlier request, or
\* one no request has created yet
TaskIdChoices(r) == {TaskUuid(q) : q \in 1..r}
\* the messages a client may send as request r
Messages(r) ==
  {UserMessage(id, ctx, tid) : id \in ClientMsgIds(r) \cup {None},
                               ctx \in ClientContexts \cup {None},
                               tid \in TaskIdChoices(r) \cup {None}}

\* MomentoTaskStore before its first call; makeRequest before its first fetch
NoStoredTask == [absent |-> TRUE]
NoSave == [pc |-> "idle", arg |-> NoStoredTask, orig |-> NoStoredTask,
           loaded |-> NoStoredTask, uuids |-> 0]
NoRequest == [pc |-> "idle", retries |-> 0, delayMs |-> 0, fetches |-> <<>>, waits |-> <<>>,
              result |-> None]

\* InMemoryTaskStore after construction, at time 0; 0 stands for "no expiresAt" /
\* "no timer" / "no ttlSeconds"
NoEntry == [now |-> 0, stored |-> FALSE, expiresAt |-> 0, timer |-> 0, saves |-> 0,
            lastAt |-> 0, lastTtl |-> 0, loaded |-> None]

InitHandler ==
  /\ topic = [c \in Contexts |-> <<>>]
  /\ mem = NoEntry
  /\ cache = <<>>
  /\ tsave = NoSave
  /\ http = NoRequest
  /\ store = [t \in TaskIds |-> NoTask]
  /\ pollers = [c \in Contexts |-> NoPoller]
  /\ contextListeners = [c \in Contexts |-> 0]
  /\ attached = {}
  /\ rop = [r \in Reqs |-> None]
  /\ rmsg = [r \in Reqs |-> NoUserMessage]
  /\ ppage = [c \in Contexts |-> 0]
  /\ orphans = {}
  /\ hole = [c \in Contexts |-> NoHole]
  /\ notes = <<>>
  /\ recv = [r \in Reqs |-> <<>>]
  /\ calls = [c \in Contexts |-> [reg |-> 0, unreg |-> 0, last |-> None]]
  /\ arts = [r \in Reqs |-> <<>>]
  /\ sarts = [t \in TaskIds |-> <<>>]
  /\ stream = [r \in Reqs |-> <<>>]
  /\ seeded = [store |-> [t \in TaskIds |-> NoTask], sarts |-> [t \in TaskIds |-> <<>>]]
  /\ rid = [r \in Reqs |-> None]
  /\ rhl = [r \in Reqs |-> NoHistoryLength]
  /\ pushConfig = [t \in TaskIds |-> None]
  /\ rpc = [r \in Reqs |-> "idle"]
  /\ rctx = [r \in Reqs |-> None]
  /\ rresult = [r \in Reqs |-> NoResult]
  /\ rtimer = [r \in Reqs |-> "off"]
  /\ qbuf = [r \in Reqs |-> <<>>]
  /\ qstopped = [r \in Reqs |-> FALSE]
  /\ gpc = [r \in Reqs |-> "running"]
  /\ cur = [r \in Reqs |-> NoTask]
  /\ finalMsg = [r \in Reqs |-> NoMsg]
  /\ epc = [r \in Reqs |-> "off"]
  /\ etask = [r \in Reqs |-> [id |-> None, contextId |-> None]]
  /\ execLog = [r \in Reqs |-> <<>>]
  /\ hres = [r \in Reqs |-> NoHandlerResult]
  /\ efail = [r \in Reqs |-> FALSE]
  /\ yielded = [r \in Reqs |-> <<>>]
  /\ cpc = [k \in Cancels |-> "idle"]
  /\ ctask = [k \in Cancels |-> NoTask]
  /\ crunning = [k \in Cancels |-> FALSE]
  /\ cresult = [k \in Cancels |-> NoResult]

\* a handler whose agent card does not declare push notifications
Init == InitHandler /\ pushNotifications = "unset"

\* ---- Event Bus ---------------------------------------------------------------
\* MomentoEventBus.publish: append to the topic named by the event's contextId
publish(tp, e) == [tp EXCEPT ![e.contextId] = Append(@, e)]

\* MomentoEventBus.registerContext: start a poller at (0, 0) unless one exists
registerContext(ps, c) == IF ps[c] # NoPoller THEN ps ELSE [ps EXCEPT ![c] = 0]

\* MomentoEventBus.unregisterContext on (pollers, contextListeners, attached)
unregisterPollers(ps, c) == [ps EXCEPT ![c] = NoPoller]
unregisterListeners(cl, c) == [cl EXCEPT ![c] = 0]
unregisterAttached(att, cl, c) == IF cl[c] # 0 THEN att \ {cl[c]} ELSE att

\* one item of a topicSubscribe response is parsed and emitted to the attached
\* listeners; ExecutionEventQueue.handleEvent buffers it unless stopped
Poll(c) ==
  /\ pollers[c] # NoPoller
  /\ pollers[c] < Len(topic[c])
  /\ LET e == topic[c][pollers[c] + 1] IN
     qbuf' = [r \in Reqs |->
                IF r \in attached /\ rctx[r] = e.contextId /\ ~qstopped[r]
                THEN Append(qbuf[r], e) ELSE qbuf[r]]
  /\ pollers' = [pollers EXCEPT ![c] = @ + 1]
  /\ UNCHANGED <<topic, store, contextListeners, attached, reqVars, qstopped, gpc,
                 rmVars, execVars, yielded, cancelVars>>
  /\ UNCHANGED busxVars
  /\ UNCHANGED extVars

\* ---- Request Handler: sendMessage / sendMessageStream ------------------------
\* The call up to the point where it waits for events: validation, task lookup,
\* context registration, queue construction (onContext), executor kick-off, timer.
Start(r, op, m) ==
  /\ rpc[r] = "idle"
  /\ \A q \in Reqs : q < r => rpc[q] # "idle"
  /\ LET task == IF m.taskId # None THEN load(store, m.taskId) ELSE NoTask
         ctx == IF m.contextId # None THEN m.contextId
                ELSE IF task # NoTask THEN task.contextId ELSE HandlerUuid(r)
     IN
     IF m.messageId = None
     THEN /\ rpc' = [rpc EXCEPT ![r] = "failed"]
          /\ rresult' = [rresult EXCEPT ![r] = ErrorResult("InvalidParams")]
          /\ UNCHANGED <<rop, rmsg, rctx, rtimer, busVars, epc, etask>>
     ELSE IF m.taskId # None /\ task = NoTask
     THEN /\ rpc' = [rpc EXCEPT ![r] = "failed"]
          /\ rresult' = [rresult EXCEPT ![r] = ErrorResult("TaskNotFound")]
          /\ UNCHANGED <<rop, rmsg, rctx, rtimer, busVars, epc, etask>>
     ELSE /\ rpc' = [rpc EXCEPT ![r] = "wait"]
          /\ rop' = [rop EXCEPT ![r] = op]
          /\ rmsg' = [rmsg EXCEPT ![r] = m]
          /\ rctx' = [rctx EXCEPT ![r] = ctx]
          /\ rtimer' = [rtimer EXCEPT ![r] = IF op = "send" THEN "armed" ELSE "off"]
          /\ pollers' = registerContext(pollers, ctx)
          /\ contextListeners' = [contextListeners EXCEPT ![ctx] = r]
          /\ attached' = attached \cup {r}
          /\ etask' = [etask EXCEPT ![r] = initializeTask(r, task, m)]
          /\ epc' = [epc EXCEPT ![r] = IF task = NoTask THEN "pubTask" ELSE "pubWorking"]
          /\ UNCHANGED <<topic, rresult>>
  /\ UNCHANGED <<store, queueVars, rmVars, execLog, hres, efail, yielded, cancelVars>>
  /\ UNCHANGED busxVars
  /\ UNCHANGED extVars

\* ---- Executor: execute() -------------------------------------------------------
\* publish(task) for a new task
ExecPublishTask(r) ==
  /\ epc[r] = "pubTask"
  /\ LET m == Msg(rmsg[r].messageId, rmsg[r].parts)
         e == TaskEvent(etask[r].id, etask[r].contextId, "submitted", m, <<m>>)
     IN /\ topic' = publish(topic, e)
        /\ execLog' = [execLog EXCEPT ![r] = Append(@, e)]
  /\ epc' = [epc EXCEPT ![r] = "pubWorking"]
  /\ UNCHANGED <<store, pollers, contextListeners, attached, reqVars, queueVars, rmVars,
                 etask, hres, efail, yielded, cancelVars>>
  /\ UNCHANGED busxVars
  /\ UNCHANGED extVars

\* publish(workingUpdate)
ExecPublishWorking(r) ==
  /\ epc[r] = "pubWorking"
  /\ LET e == StatusUpdate(etask[r].id, etask[r].contextId, "working",
                           Msg(rmsg[r].messageId, rmsg[r].parts), FALSE)
     IN /\ topic' = publish(topic, e)
        /\ execLog' = [execLog EXCEPT ![r] = Append(@, e)]
  /\ epc' = [epc EXCEPT ![r] = "handler"]
  /\ UNCHANGED <<store, pollers, contextListeners, attached, reqVars, queueVars, rmVars,
                 etask, hres, efail, yielded, cancelVars>>
  /\ UNCHANGED busxVars
  /\ UNCHANGED extVars

\* the handler returns res (or throws) and execute publishes its final update
HandlerFinish(r, res) ==
  /\ epc[r] = "handler"
  /\ LET e == FinalUpdate(etask[r], rmsg[r], res)
     IN /\ topic' = publish(topic, e)
        /\ execLog' = [execLog EXCEPT ![r] = Append(@, e)]
  /\ epc' = [epc EXCEPT ![r] = "done"]
  /\ hres' = [hres EXCEPT ![r] = res]
  /\ UNCHANGED <<store, pollers, contextListeners, attached, reqVars, queueVars, rmVars,
                 etask, efail, yielded, cancelVars>>
  /\ UNCHANGED busxVars
  /\ UNCHANGED extVars

\* ---- Execution Event Queue -------------------------------------------------------
\* events() ends after yielding a message or a final status-update
EndsQueue(e) == e.kind = "message" \/ (e.kind = "status-update" /\ e.final)

\* sendMessage breaks out of its loop on a terminal task / final terminal update
BreaksSend(e) ==
  \/ e.kind = "task" /\ isFinal(e.state)
  \/ e.kind = "status-update" /\ e.final /\ isFinal(e.state)

LatestUserMessage(r) == Msg(rmsg[r].messageId, rmsg[r].parts)

\* sendMessage: events() yields the head of the buffer, the Result Manager
\* reduces it, and the loop either goes on or ends (generator finally, stop())
\* with the call's result
ProcessSend(r) ==
  /\ rop[r] = "send"
  /\ rpc[r] = "wait"
  /\ ~qstopped[r]
  /\ qbuf[r] # <<>>
  /\ LET e == Head(qbuf[r])
         rm == processEvent(cur[r], LatestUserMessage(r), finalMsg[r], store, e)
         finalTask == IF BreaksSend(e) THEN load(rm.store, e.taskId) ELSE NoTask
         c == rctx[r]
     IN
     /\ qbuf' = [qbuf EXCEPT ![r] = Tail(@)]
     /\ cur' = [cur EXCEPT ![r] = rm.cur]
     /\ finalMsg' = [finalMsg EXCEPT ![r] = rm.finalMsg]
     /\ store' = rm.store
     /\ IF BreaksSend(e) \/ EndsQueue(e)
        THEN /\ qstopped' = [qstopped EXCEPT ![r] = TRUE]
             /\ gpc' = [gpc EXCEPT ![r] = "ended"]
             /\ pollers' = unregisterPollers(pollers, c)
             /\ attached' = unregisterAttached(attached, contextListeners, c)
             /\ contextListeners' = unregisterListeners(contextListeners, c)
             /\ IF finalTask # NoTask
                THEN /\ rpc' = [rpc EXCEPT ![r] = "returned"]
                     /\ rresult' = [rresult EXCEPT ![r] = TaskResult(finalTask)]
                ELSE IF rm.finalMsg = NoMsg /\ rm.cur # NoTask
                THEN /\ rpc' = [rpc EXCEPT ![r] = "returned"]
                     /\ rresult' = [rresult EXCEPT ![r] = TaskResult(rm.cur)]
                ELSE /\ rpc' = [rpc EXCEPT ![r] = "failed"]
                     /\ rresult' = [rresult EXCEPT ![r] = ErrorResult("InternalError")]
        ELSE UNCHANGED <<qstopped, gpc, pollers, attached, contextListeners, rpc, rresult>>
  /\ UNCHANGED <<topic, rop, rmsg, rctx, rtimer, execVars, yielded, cancelVars>>
  /\ UNCHANGED busxVars
  /\ UNCHANGED extVars

\* sendMessageStream: the same loop, yielding task / status-update events to the
\* consumer; it ends when events() ends
ProcessStream(r) ==
  /\ rop[r] = "stream"
  /\ rpc[r] = "wait"
  /\ ~qstopped[r]
  /\ qbuf[r] # <<>>
  /\ LET e == Head(qbuf[r])
         rm == processEvent(cur[r], LatestUserMessage(r), finalMsg[r], store, e)
         c == rctx[r]
     IN
     /\ qbuf' = [qbuf EXCEPT ![r] = Tail(@)]
     /\ cur' = [cur EXCEPT ![r] = rm.cur]
     /\ finalMsg' = [finalMsg EXCEPT ![r] = rm.finalMsg]
     /\ store' = rm.store
     /\ yielded' = [yielded EXCEPT ![r] =
                      IF e.kind \in {"task", "status-update", "artifact-update"}
                      THEN Append(@, e) ELSE @]
     /\ IF EndsQueue(e)
        THEN /\ qstopped' = [qstopped EXCEPT ![r] = TRUE]
             /\ gpc' = [gpc EXCEPT ![r] = "ended"]
             /\ pollers' = unregisterPollers(pollers, c)
             /\ attached' = unregisterAttached(attached, contextListeners, c)
             /\ contextListeners' = unregisterListeners(contextListeners, c)
             /\ rpc' = [rpc EXCEPT ![r] = "returned"]
        ELSE UNCHANGED <<qstopped, gpc, pollers, attached, contextListeners, rpc>>
  /\ UNCHANGED <<topic, rop, rmsg, rctx, rresult, rtimer, execVars, cancelVars>>
  /\ UNCHANGED busxVars
  /\ UNCHANGED extVars

\* the 30 s timer of sendMessage fires: eventQueue.stop(), then reject; the
\* timer is never cleared, so it also fires after the call has settled
TimerFire(r) ==
  /\ rtimer[r] = "armed"
  /\ rtimer' = [rtimer EXCEPT ![r] = "fired"]
  /\ qstopped' = [qstopped EXCEPT ![r] = TRUE]
  /\ gpc' = [gpc EXCEPT ![r] = "ended"]
  /\ pollers' = unregisterPollers(pollers, rctx[r])
  /\ attached' = unregisterAttached(attached, contextListeners, rctx[r])
  /\ contextListeners' = unregisterListeners(contextListeners, rctx[r])
  /\ IF rpc[r] = "wait"
     THEN /\ rpc' = [rpc EXCEPT ![r] = "failed"]
          /\ rresult' = [rresult EXCEPT ![r] = ErrorResult("Timeout")]
     ELSE UNCHANGED <<rpc, rresult>>
  /\ UNCHANGED <<topic, store, rop, rmsg, rctx, qbuf, rmVars, execVars, yielded, cancelVars>>
  /\ UNCHANGED busxVars
  /\ UNCHANGED extVars

\* ---- Request Handler: cancelTask ---------------------------------------------------
CancelMsg(k) == Msg(CancelUuid(k), <<TextPart("Task cancellation requested by user.")>>)

\* load the task; TaskNotFound / TaskNotCancelable
CancelLoad(k, id) ==
  /\ cpc[k] = "idle"
  /\ crunning' = [crunning EXCEPT ![k] = \E r \in Reqs : etask[r].id = id /\ epc[r] = "handler"]
  /\ LET task == load(store, id) IN
     IF task = NoTask
     THEN /\ cpc' = [cpc EXCEPT ![k] = "failed"]
          /\ cresult' = [cresult EXCEPT ![k] = ErrorResult("TaskNotFound")]
          /\ UNCHANGED ctask
     ELSE IF isFinal(task.state)
     THEN /\ cpc' = [cpc EXCEPT ![k] = "failed"]
          /\ cresult' = [cresult EXCEPT ![k] = ErrorResult("TaskNotCancelable")]
          /\ UNCHANGED ctask
     ELSE /\ cpc' = [cpc EXCEPT ![k] = "loaded"]
          /\ ctask' = [ctask EXCEPT ![k] = task]
          /\ UNCHANGED cresult
  /\ UNCHANGED <<topic, store, pollers, contextListeners, attached, reqVars, queueVars,
                 rmVars, execVars, yielded>>
  /\ UNCHANGED busxVars
  /\ UNCHANGED extVars

\* set status canceled, save, publish the final status-update, return the task
CancelSave(k) ==
  /\ cpc[k] = "loaded"
  /\ LET t == [ctask[k] EXCEPT !.state = "canceled", !.msg = CancelMsg(k)] IN
     /\ ctask' = [ctask EXCEPT ![k] = t]
     /\ store' = save(store, t)
     /\ topic' = publish(topic, StatusUpdate(t.id, t.contextId, t.state, t.msg, TRUE))
     /\ cresult' = [cresult EXCEPT ![k] = TaskResult(t)]
  /\ cpc' = [cpc EXCEPT ![k] = "done"]
  /\ UNCHANGED <<pollers, contextListeners, attached, reqVars, queueVars,
                 rmVars, execVars, yielded, crunning>>
  /\ UNCHANGED busxVars
  /\ UNCHANGED extVars

\* ---- specification --------------------------------------------------------------
Executor ==
  \/ \E r \in Reqs : ExecPublishTask(r)
  \/ \E r \in Reqs : ExecPublishWorking(r)
  \/ \E r \in Reqs : \E res \in MainResults : HandlerFinish(r, res)

\* concurrent sendMessage / sendMessageStream calls on one bus and one store
Next ==
  \/ \E r \in Reqs : \E op \in {"send", "stream"} : \E m \in Messages(r) : Start(r, op, m)
  \/ Executor
  \/ \E c \in Contexts : Poll(c)
  \/ \E r \in Reqs : ProcessSend(r)
  \/ \E r \in Reqs : ProcessStream(r)

Spec == Init /\ [][Next]_vars

\* one sendMessage / sendMessageStream call and concurrent cancelTask calls
NextCancel ==
  \/ \E op \in {"send", "stream"} : \E m \in Messages(1) : Start(1, op, m)
  \/ Executor
  \/ \E c \in Contexts : Poll(c)
  \/ ProcessSend(1)
  \/ ProcessStream(1)
  \/ \E k \in Cancels : \E id \in TaskIds : CancelLoad(k, id)
  \/ \E k \in Cancels : CancelSave(k)

SpecCancel == Init /\ [][NextCancel]_vars

\* concurrent sendMessage calls with their 30 s timers
NextTimer ==
  \/ \E r \in Reqs : \E m \in Messages(r) : Start(r, "send", m)
  \/ Executor
  \/ \E c \in Contexts : Poll(c)
  \/ \E r \in Reqs : ProcessSend(r)
  \/ \E r \in Reqs : TimerFire(r)

SpecTimer == Init /\ [][NextTimer]_vars

\* ---- execute() called directly ----------------------------------------------------
\* the pre-existing tasks execute() may be handed as context.task
ExecBases ==
  {NoTask,
   Task(TaskUuid(1), "c1", "working", Msg("m1", UserParts), <<Msg("m1", UserParts)>>)}

\* execute(message, eventBus, {task: base})
Execute(r, m, base) ==
  /\ rpc[r] = "idle"
  /\ \A q \in Reqs : q < r => rpc[q] # "idle"
  /\ rpc' = [rpc EXCEPT ![r] = "exec"]
  /\ rmsg' = [rmsg EXCEPT ![r] = m]
  /\ etask' = [etask EXCEPT ![r] = initializeTask(r, base, m)]
  /\ epc' = [epc EXCEPT ![r] = IF base = NoTask THEN "pubTask" ELSE "pubWorking"]
  /\ UNCHANGED <<busVars, store, rop, rctx, rresult, rtimer, queueVars, rmVars, execLog,
                 hres, efail, yielded, cancelVars>>
  /\ UNCHANGED busxVars
  /\ UNCHANGED extVars

NextExec ==
  \/ \E r \in Reqs : \E m \in Messages(r) : \E base \in ExecBases : Execute(r, m, base)
  \/ \E r \in Reqs : ExecPublishTask(r)
  \/ \E r \in Reqs : ExecPublishWorking(r)
  \/ \E r \in Reqs : \E res \in HandlerResults : HandlerFinish(r, res)

SpecExec == Init /\ [][NextExec]_vars

\* ---- execute() on a bus whose publish may fail ---------------------------------------
\* execute(message, eventBus) without a context object: reading context.task throws
ExecuteNoContext(r, m) ==
  /\ rpc[r] = "idle"
  /\ \A q \in Reqs : q < r => rpc[q] # "idle"
  /\ rpc' = [rpc EXCEPT ![r] = "exec"]
  /\ rmsg' = [rmsg EXCEPT ![r] = m]
  /\ epc' = [epc EXCEPT ![r] = "rejected"]
  /\ UNCHANGED <<busVars, store, rop, rctx, rresult, rtimer, queueVars, rmVars, etask,
                 execLog, hres, efail, yielded, cancelVars>>
  /\ UNCHANGED busxVars
  /\ UNCHANGED extVars

\* publish(task) / publish(workingUpdate) rejects: both are outside the try block
ExecPublishFail(r) ==
  /\ epc[r] \in {"pubTask", "pubWorking"}
  /\ epc' = [epc EXCEPT ![r] = "rejected"]
  /\ efail' = [efail EXCEPT ![r] = TRUE]
  /\ UNCHANGED <<busVars, store, reqVars, queueVars, rmVars, etask, execLog, hres, yielded,
                 cancelVars>>
  /\ UNCHANGED busxVars
  /\ UNCHANGED extVars

\* the error the event bus raises when the topic request fails
PublishError == "topic publish failed"

\* the handler returns res (or throws) and the publish of the final update
\* rejects: a rejected publish(completedUpdate) is caught and answered with
\* publish(failedUpdate), which succeeds (retryOk) or rejects too
HandlerFinishFail(r, res, retryOk) ==
  /\ epc[r] = "handler"
  /\ hres' = [hres EXCEPT ![r] = res]
  /\ efail' = [efail EXCEPT ![r] = TRUE]
  /\ IF res.tag # "throw" /\ ResultStatus(rmsg[r], res).state # None /\ retryOk
     THEN LET e == StatusUpdate(etask[r].id, etask[r].contextId, "failed",
                                Msg(rmsg[r].messageId, <<TextPart(FailedText(PublishError))>>),
                                TRUE)
          IN /\ topic' = publish(topic, e)
             /\ execLog' = [execLog EXCEPT ![r] = Append(@, e)]
             /\ epc' = [epc EXCEPT ![r] = "done"]
     ELSE /\ epc' = [epc EXCEPT ![r] = "rejected"]
          /\ UNCHANGED <<topic, execLog>>
  /\ UNCHANGED <<store, pollers, contextListeners, attached, reqVars, queueVars, rmVars,
                 etask, yielded, cancelVars>>
  /\ UNCHANGED busxVars
  /\ UNCHANGED extVars

\* the messages the request handler hands to execute: those with a messageId
ValidMessages(r) == {m \in Messages(r) : m.messageId # None}

NextExecFail ==
  \/ \E r \in Reqs : \E m \in ValidMessages(r) : \E base \in ExecBases : Execute(r, m, base)
  \/ \E r \in Reqs : \E m \in ValidMessages(r) : ExecuteNoContext(r, m)
  \/ \E r \in Reqs : ExecPublishTask(r)
  \/ \E r \in Reqs : ExecPublishWorking(r)
  \/ \E r \in Reqs : ExecPublishFail(r)
  \/ \E r \in Reqs : \E res \in HandlerResults : HandlerFinish(r, res)
  \/ \E r \in Reqs : \E res \in HandlerResults : \E retryOk \in BOOLEAN :
       HandlerFinishFail(r, res, retryOk)

SpecExecFail == Init /\ [][NextExecFail]_vars

\* ---- stand-alone Execution Event Queues on one bus ---------------------------------
MaxEmit == 3         \* events published to the queues' topics

\* the events published to a queue's context
QueueEvents(c) ==
  {MessageEvent(c, Msg("m1", UserParts)),
   TaskEvent("t1", c, "submitted", Msg("m1", UserParts), <<Msg("m1", UserParts)>>),
   StatusUpdate("t1", c, "working", Msg("m1", UserParts), FALSE),
   StatusUpdate("t1", c, "completed", Msg("m1", UserParts), TRUE)}

Published == LET n[cs \in SUBSET Contexts] ==
                   IF cs = {} THEN 0
                   ELSE LET c == CHOOSE x \in cs : TRUE IN Len(topic[c]) + n[cs \ {c}]
             IN n[Contexts]

\* new ExecutionEventQueue(bus, c): onContext registers the context and the listener
QCreate(r, c) ==
  /\ rpc[r] = "idle"
  /\ \A q \in Reqs : q < r => rpc[q] # "idle"
  /\ rpc' = [rpc EXCEPT ![r] = "queue"]
  /\ rctx' = [rctx EXCEPT ![r] = c]
  /\ pollers' = registerContext(pollers, c)
  /\ contextListeners' = [contextListeners EXCEPT ![c] = r]
  /\ attached' = attached \cup {r}
  /\ UNCHANGED <<topic, store, rop, rmsg, rresult, rtimer, queueVars, rmVars, execVars,
                 yielded, cancelVars>>
  /\ UNCHANGED busxVars
  /\ UNCHANGED extVars

\* some publisher publishes an event on a context
EnvPublish(e) ==
  /\ Published < MaxEmit
  /\ topic' = publish(topic, e)
  /\ UNCHANGED <<store, pollers, contextListeners, attached, reqVars, queueVars, rmVars,
                 execVars, yielded, cancelVars>>
  /\ UNCHANGED busxVars
  /\ UNCHANGED extVars

\* events(): the loop shifts the head of the buffer and yields it
QYield(r) ==
  /\ rpc[r] = "queue"
  /\ gpc[r] = "running"
  /\ ~qstopped[r]
  /\ qbuf[r] # <<>>
  /\ yielded' = [yielded EXCEPT ![r] = Append(@, Head(qbuf[r]))]
  /\ qbuf' = [qbuf EXCEPT ![r] = Tail(@)]
  /\ gpc' = [gpc EXCEPT ![r] = "atYield"]
  /\ UNCHANGED <<busVars, store, reqVars, qstopped, rmVars, execVars, cancelVars>>
  /\ UNCHANGED busxVars
  /\ UNCHANGED extVars

\* the consumer asks for the next event: after a message / final status-update
\* the generator calls stop(), breaks and runs its finally block
QResume(r) ==
  /\ rpc[r] = "queue"
  /\ gpc[r] = "atYield"
  /\ IF EndsQueue(yielded[r][Len(yielded[r])])
     THEN /\ qstopped' = [qstopped EXCEPT ![r] = TRUE]
          /\ gpc' = [gpc EXCEPT ![r] = "ended"]
          /\ pollers' = unregisterPollers(pollers, rctx[r])
          /\ attached' = unregisterAttached(attached, contextListeners, rctx[r])
          /\ contextListeners' = unregisterListeners(contextListeners, rctx[r])
     ELSE /\ gpc' = [gpc EXCEPT ![r] = "running"]
          /\ UNCHANGED <<qstopped, pollers, attached, contextListeners>>
  /\ UNCHANGED <<topic, store, reqVars, qbuf, rmVars, execVars, yielded, cancelVars>>
  /\ UNCHANGED busxVars
  /\ UNCHANGED extVars

\* the loop finds the queue stopped: it ends through its finally block
QEnd(r) ==
  /\ rpc[r] = "queue"
  /\ gpc[r] = "running"
  /\ qstopped[r]
  /\ gpc' = [gpc EXCEPT ![r] = "ended"]
  /\ pollers' = unregisterPollers(pollers, rctx[r])
  /\ attached' = unregisterAttached(attached, contextListeners, rctx[r])
  /\ contextListeners' = unregisterListeners(contextListeners, rctx[r])
  /\ UNCHANGED <<topic, store, reqVars, qbuf, qstopped, rmVars, execVars, yielded, cancelVars>>
  /\ UNCHANGED busxVars
  /\ UNCHANGED extVars

\* the consumer leaves its loop at a yield: return() runs the finally block
QReturn(r) ==
  /\ rpc[r] = "queue"
  /\ gpc[r] = "atYield"
  /\ gpc' = [gpc EXCEPT ![r] = "ended"]
  /\ pollers' = unregisterPollers(pollers, rctx[r])
  /\ attached' = unregisterAttached(attached, contextListeners, rctx[r])
  /\ contextListeners' = unregisterListeners(contextListeners, rctx[r])
  /\ UNCHANGED <<topic, store, reqVars, qbuf, qstopped, rmVars, execVars, yielded, cancelVars>>
  /\ UNCHANGED busxVars
  /\ UNCHANGED extVars

\* stop(), called by anyone at any time
QStop(r) ==
  /\ rpc[r] = "queue"
  /\ qstopped' = [qstopped EXCEPT ![r] = TRUE]
  /\ pollers' = unregisterPollers(pollers, rctx[r])
  /\ attached' = unregisterAttached(attached, contextListeners, rctx[r])
  /\ contextListeners' = unregisterListeners(contextListeners, rctx[r])
  /\ UNCHANGED <<topic, store, reqVars, qbuf, gpc, rmVars, execVars, yielded, cancelVars>>
  /\ UNCHANGED busxVars
  /\ UNCHANGED extVars

NextQueue ==
  \/ \E r \in Reqs : \E c \in QueueContexts : QCreate(r, c)
  \/ \E c \in QueueContexts : \E e \in QueueEvents(c) : EnvPublish(e)
  \/ \E c \in Contexts : Poll(c)
  \/ \E r \in Reqs : QYield(r)
  \/ \E r \in Reqs : QResume(r)
  \/ \E r \in Reqs : QEnd(r)
  \/ \E r \in Reqs : QReturn(r)
  \/ \E r \in Reqs : QStop(r)

SpecQueue == Init /\ [][NextQueue]_vars

\* ---- a request whose context also receives a Message event -------------------------
\* an agent publishes a Message (a direct reply without a task) on context c
PublishMessage(c) ==
  /\ \E r \in Reqs : rctx[r] = c
  /\ \A i \in 1..Len(topic[c]) : topic[c][i].kind # "message"
  /\ topic' = publish(topic, MessageEvent(c, HandlerMsg))
  /\ UNCHANGED <<store, pollers, contextListeners, attached, reqVars, queueVars, rmVars,
                 execVars, yielded, cancelVars>>
  /\ UNCHANGED busxVars
  /\ UNCHANGED extVars

NextMessage ==
  \/ \E op \in {"send", "stream"} : \E m \in Messages(1) : Start(1, op, m)
  \/ Executor
  \/ \E c \in Contexts : Poll(c)
  \/ ProcessSend(1)
  \/ ProcessStream(1)
  \/ \E c \in Contexts : PublishMessage(c)

SpecMessage == Init /\ [][NextMessage]_vars

\* ---- MomentoEventBus: listeners, poll loops and the topic service -------------
\* The bus API is driven directly: onContext / registerContext / unregisterContext
\* by callers, publish by any publisher.  A poll loop always has a topicSubscribe
\* request outstanding except during its 100 ms sleep; an aborted loop checks the
\* abort signal only at the top of the loop, so a response that arrives after the
\* abort is still processed and emitted.
MaxSeq == 6          \* items published to the topics
MaxRegister == 2     \* registerContext / unregisterContext calls per context
MaxOrphans == 1      \* aborted poll loops with a request in flight
MaxLiveSeq == 3      \* items published in the fair bus specification
BusContexts == {"c1"}
SeqPages == {2}

\* the event every publisher of the bus scenarios publishes
BusEvent(c) == StatusUpdate("t1", c, "working", Msg("m1", UserParts), FALSE)

\* a TopicMessage with its topic_sequence_number / a TopicDiscontinuity
Item(n) == [kind |-> "item", topic_sequence_number |-> n, new_topic_sequence |-> 0,
            new_sequence_page |-> 0]
Discontinuity(n, p) == [kind |-> "discontinuity", topic_sequence_number |-> 0,
                        new_topic_sequence |-> n, new_sequence_page |-> p]

\* topic service: the items of context c from sequence number s on; the range the
\* service no longer holds is reported as one discontinuity
RECURSIVE Items(_, _)
Items(c, s) ==
  IF s >= Len(topic[c]) THEN <<>>
  ELSE IF s >= hole[c].lo /\ s <= hole[c].hi
       THEN <<Discontinuity(hole[c].hi, hole[c].page)>> \o Items(c, hole[c].hi + 1)
       ELSE <<Item(s)>> \o Items(c, s + 1)

\* topicSubscribe(c, s, p): the response carries a non-empty prefix of the items
Responses(c, s) == {SubSeq(Items(c, s), 1, k) : k \in 1..Len(Items(c, s))}

\* a "discontinuity" notification; seqBefore records state.seqNum as it was when the
\* item was reached (history only, not part of the emitted object)
Notification(c, from, to, before) ==
  [contextId |-> c, fromSequence |-> from, toSequence |-> to, seqBefore |-> before]

\* a poll loop that resumes at new_topic_sequence itself after a discontinuity
RECURSIVE pollItemsNoSkip(_, _, _, _)
pollItemsNoSkip(c, items, s, p) ==
  IF items = <<>> THEN [seqNum |-> s, seqPage |-> p, emitted |-> <<>>, notified |-> <<>>]
  ELSE LET item == Head(items) IN
       IF item.kind = "item"
       THEN LET rest == pollItemsNoSkip(c, Tail(items), item.topic_sequence_number + 1, p) IN
            [rest EXCEPT !.emitted = <<item.topic_sequence_number>> \o @]
       ELSE LET seqNum == item.new_topic_sequence
                seqPage == item.new_sequence_page
                rest == pollItemsNoSkip(c, Tail(items), seqNum, seqPage) IN
            [rest EXCEPT !.notified =
               <<Notification(c, seqNum, item.new_topic_sequence, s)>> \o @]

\* poll, the body of the for loop over response.items, from poller state (s, p):
\* the resulting seqNum, seqPage, the sequence numbers emitted as "event" and the
\* notifications emitted as "discontinuity"
RECURSIVE pollItems(_, _, _, _)
pollItems(c, items, s, p) ==
  IF items = <<>> THEN [seqNum |-> s, seqPage |-> p, emitted |-> <<>>, notified |-> <<>>]
  ELSE LET item == Head(items) IN
       IF item.kind = "item"
       THEN LET rest == pollItems(c, Tail(items), item.topic_sequence_number + 1, p) IN
            [rest EXCEPT !.emitted = <<item.topic_sequence_number>> \o @]
       ELSE LET seqNum == item.new_topic_sequence + 1
                seqPage == item.new_sequence_page
                rest == pollItems(c, Tail(items), seqNum, seqPage) IN
            [rest EXCEPT !.notified =
               <<Notification(c, seqNum, item.new_topic_sequence, s)>> \o @]

\* emit("event", e) for each emitted item of context c: every attached filtered
\* listener of that context is called
emit(rv, c, emitted) ==
  [r \in Reqs |-> IF r \in attached /\ rctx[r] = c THEN rv[r] \o emitted ELSE rv[r]]

Registered(cs, c) == [cs EXCEPT ![c].reg = @ + 1, ![c].last = "register"]
Unregistered(cs, c) == [cs EXCEPT ![c].unreg = @ + 1, ![c].last = "unregister"]

\* bus.onContext(c, listener) with a fresh listener r
BusOnContext(r, c) ==
  /\ rpc[r] = "idle"
  /\ \A q \in Reqs : q < r => rpc[q] # "idle"
  /\ calls[c].reg < MaxRegister
  /\ rpc' = [rpc EXCEPT ![r] = "listener"]
  /\ rctx' = [rctx EXCEPT ![r] = c]
  /\ pollers' = registerContext(pollers, c)
  /\ ppage' = IF pollers[c] # NoPoller THEN ppage ELSE [ppage EXCEPT ![c] = 0]
  /\ contextListeners' = [contextListeners EXCEPT ![c] = r]
  /\ attached' = attached \cup {r}
  /\ calls' = Registered(calls, c)
  /\ UNCHANGED <<topic, store, rop, rmsg, rresult, rtimer, queueVars, rmVars, execVars,
                 yielded, cancelVars, orphans, hole, notes, recv>>
  /\ UNCHANGED extVars

\* bus.registerContext(c)
BusRegisterContext(c) ==
  /\ calls[c].reg < MaxRegister
  /\ pollers' = registerContext(pollers, c)
  /\ ppage' = IF pollers[c] # NoPoller THEN ppage ELSE [ppage EXCEPT ![c] = 0]
  /\ calls' = Registered(calls, c)
  /\ UNCHANGED <<topic, store, contextListeners, attached, reqVars, queueVars, rmVars,
                 execVars, yielded, cancelVars, orphans, hole, notes, recv>>
  /\ UNCHANGED extVars

\* bus.unregisterContext(c); inFlight: the aborted loop was awaiting topicSubscribe
\* (its response will still be processed) rather than sleeping
BusUnregisterContext(c, inFlight) ==
  /\ calls[c].unreg < MaxRegister
  /\ inFlight => pollers[c] # NoPoller /\ Cardinality(orphans) < MaxOrphans
  /\ orphans' = IF inFlight
                THEN orphans \cup {[contextId |-> c, seqNum |-> pollers[c],
                                    seqPage |-> ppage[c]]}
                ELSE orphans
  /\ pollers' = unregisterPollers(pollers, c)
  /\ attached' = unregisterAttached(attached, contextListeners, c)
  /\ contextListeners' = unregisterListeners(contextListeners, c)
  /\ calls' = Unregistered(calls, c)
  /\ UNCHANGED <<topic, store, reqVars, queueVars, rmVars, execVars, yielded, cancelVars,
                 ppage, hole, notes, recv>>
  /\ UNCHANGED extVars

\* bus.publish(event) by any publisher
BusPublishUpTo(c, max) ==
  /\ Published < max
  /\ topic' = publish(topic, BusEvent(c))
  /\ UNCHANGED <<store, pollers, contextListeners, attached, reqVars, queueVars, rmVars,
                 execVars, yielded, cancelVars, busxVars>>
  /\ UNCHANGED extVars

BusPublish(c) == BusPublishUpTo(c, MaxSeq)

\* the topic service drops the items lo..hi of a context
TopicLose(c, lo, hi, p) ==
  /\ hole[c] = NoHole
  /\ lo <= hi /\ hi < Len(topic[c])
  /\ hole' = [hole EXCEPT ![c] = [lo |-> lo, hi |-> hi, page |-> p]]
  /\ UNCHANGED <<busVars, store, reqVars, queueVars, rmVars, execVars, yielded, cancelVars,
                 ppage, orphans, notes, recv, calls>>
  /\ UNCHANGED extVars

\* the registered poll loop of c receives a response and processes its items
PollResponse(c) ==
  /\ pollers[c] # NoPoller
  /\ \E items \in Responses(c, pollers[c]) :
       LET res == pollItems(c, items, pollers[c], ppage[c]) IN
         /\ pollers' = [pollers EXCEPT ![c] = res.seqNum]
         /\ ppage' = [ppage EXCEPT ![c] = res.seqPage]
         /\ recv' = emit(recv, c, res.emitted)
         /\ notes' = notes \o res.notified
  /\ UNCHANGED <<topic, store, contextListeners, attached, reqVars, queueVars, rmVars,
                 execVars, yielded, cancelVars, orphans, hole, calls>>
  /\ UNCHANGED extVars

\* an aborted poll loop receives the response it was awaiting, processes it and
\* then leaves the loop (an empty or failed response only ends the loop)
OrphanResponse(o) ==
  /\ o \in orphans
  /\ \E items \in Responses(o.contextId, o.seqNum) \cup {<<>>} :
       LET res == pollItems(o.contextId, items, o.seqNum, o.seqPage) IN
         /\ recv' = emit(recv, o.contextId, res.emitted)
         /\ notes' = notes \o res.notified
  /\ orphans' = orphans \ {o}
  /\ UNCHANGED <<busVars, store, reqVars, queueVars, rmVars, execVars, yielded, cancelVars,
                 ppage, hole, calls>>
  /\ UNCHANGED extVars

NextBus ==
  \/ \E r \in Reqs : \E c \in BusContexts : BusOnContext(r, c)
  \/ \E c \in BusContexts : BusRegisterContext(c)
  \/ \E c \in BusContexts : \E inFlight \in BOOLEAN : BusUnregisterContext(c, inFlight)
  \/ \E c \in BusContexts : BusPublish(c)
  \/ \E c \in BusContexts : \E lo, hi \in 0..(MaxSeq - 1) : \E p \in SeqPages :
       TopicLose(c, lo, hi, p)
  \/ \E c \in BusContexts : PollResponse(c)
  \/ \E o \in orphans : OrphanResponse(o)

SpecBus == Init /\ [][NextBus]_vars

\* the poll loop runs for as long as its context is registered
NextBusLive ==
  \/ \E r \in Reqs : \E c \in BusContexts : BusOnContext(r, c)
  \/ \E c \in BusContexts : \E inFlight \in BOOLEAN : BusUnregisterContext(c, inFlight)
  \/ \E c \in BusContexts : BusPublishUpTo(c, MaxLiveSeq)
  \/ \E c \in BusContexts : \E lo, hi \in 0..(MaxLiveSeq - 1) : \E p \in SeqPages :
       TopicLose(c, lo, hi, p)
  \/ \E c \in BusContexts : PollResponse(c)
  \/ \E o \in orphans : OrphanResponse(o)

SpecBusLive ==
  Init /\ [][NextBusLive]_vars /\ \A c \in BusContexts : WF_vars(PollResponse(c))


\* ---- Result Manager as a reducer over an event stream -------------------------
\* One Result Manager (request 1) is handed events one at a time, in any order and
\* with any repetition; the Task Store may already hold the task, saved by another
\* request.  Metadata is a set of <<key, value>> pairs with distinct keys, an absent
\* name / description is None.
MaxStream == 4       \* events handed to the Result Manager

Artifact(id, parts, name, description, metadata) ==
  [artifactId |-> id, parts |-> parts, name |-> name, description |-> description,
   metadata |-> metadata]
ArtifactUpdate(id, ctx, artifact, append) ==
  [kind |-> "artifact-update", taskId |-> id, contextId |-> ctx, state |-> None,
   msg |-> NoMsg, final |-> FALSE, history |-> <<>>, artifact |-> artifact,
   append |-> append]

\* artifacts.findIndex(art => art.artifactId === id), 0 when there is none
IndexOf(as, id) ==
  IF \E i \in DOMAIN as : as[i].artifactId = id
  THEN CHOOSE i \in DOMAIN as : as[i].artifactId = id /\ \A j \in 1..(i - 1) : as[j].artifactId # id
  ELSE 0

\* {...existing.metadata, ...artifact.metadata}
MergeMetadata(old, new) == new \cup {q \in old : \A n \in new : n[1] # q[1]}

\* artifact-update on the task the manager loaded: append only pushes the parts
applyArtifactLoaded(as, e) ==
  LET i == IndexOf(as, e.artifact.artifactId) IN
    IF i # 0
    THEN IF e.append
         THEN [as EXCEPT ![i].parts = @ \o e.artifact.parts]
         ELSE [as EXCEPT ![i] = e.artifact]
    ELSE Append(as, e.artifact)

\* an append that pushes the parts and keeps name, description and metadata
applyArtifactPartsOnly(as, e) ==
  LET i == IndexOf(as, e.artifact.artifactId) IN
    IF i # 0 /\ e.append
    THEN [as EXCEPT ![i].parts = @ \o e.artifact.parts]
    ELSE applyArtifactLoaded(as, e)

\* artifact-update on the task the manager holds
applyArtifact(as, e) ==
  LET i == IndexOf(as, e.artifact.artifactId) IN
    IF i # 0
    THEN IF e.append
         THEN [as EXCEPT ![i] =
                 [@ EXCEPT !.parts = @ \o e.artifact.parts,
                           !.description = IF e.artifact.description # None
                                           THEN e.artifact.description ELSE @,
                           !.name = IF e.artifact.name # None THEN e.artifact.name ELSE @,
                           !.metadata = MergeMetadata(@, e.artifact.metadata)]]
         ELSE [as EXCEPT ![i] = e.artifact]
    ELSE Append(as, e.artifact)

\* the manager with its store: currentTask, its artifacts, finalMessageResult, the
\* stored tasks and their artifacts
Manager(c, as, fm, st, sas) ==
  [cur |-> c, arts |-> as, finalMsg |-> fm, store |-> st, sarts |-> sas]

\* ResultManager.processEvent, every branch, on a manager whose setContext was
\* called with latestUserMessage
reduce(rm, latestUserMessage, e) ==
  IF e.kind = "artifact-update"
  THEN IF rm.cur # NoTask /\ rm.cur.id = e.taskId
       THEN LET as == applyArtifact(rm.arts, e) IN
            Manager(rm.cur, as, rm.finalMsg, save(rm.store, rm.cur),
                    [rm.sarts EXCEPT ![rm.cur.id] = as])
       ELSE IF rm.cur = NoTask /\ e.taskId # None /\ load(rm.store, e.taskId) # NoTask
       THEN LET as == applyArtifactLoaded(rm.sarts[e.taskId], e) IN
            Manager(load(rm.store, e.taskId), as, rm.finalMsg, rm.store,
                    [rm.sarts EXCEPT ![e.taskId] = as])
       ELSE rm
  ELSE LET res == processEvent(rm.cur, latestUserMessage, rm.finalMsg, rm.store, e)
           held == rm.cur # NoTask /\ rm.cur.id = e.taskId
           loaded == rm.cur = NoTask /\ e.taskId # None /\ load(rm.store, e.taskId) # NoTask
           as == CASE e.kind = "task" -> <<>>
                   [] e.kind = "status-update" /\ ~held /\ loaded -> rm.sarts[e.taskId]
                   [] OTHER -> rm.arts
           saved == e.kind = "task" \/ (e.kind = "status-update" /\ (held \/ loaded))
       IN Manager(res.cur, as, res.finalMsg, res.store,
                  IF saved THEN [rm.sarts EXCEPT ![res.cur.id] = as] ELSE rm.sarts)

RECURSIVE reduceAll(_, _, _)
reduceAll(rm, latestUserMessage, events) ==
  IF events = <<>> THEN rm
  ELSE reduceAll(reduce(rm, latestUserMessage, Head(events)), latestUserMessage, Tail(events))

\* the stream without the repeated deliveries of an event
RECURSIVE Dedup(_)
Dedup(events) ==
  IF events = <<>> THEN <<>>
  ELSE LET front == Dedup(SubSeq(events, 1, Len(events) - 1))
           last == events[Len(events)]
       IN IF \E i \in DOMAIN front : front[i] = last THEN front ELSE Append(front, last)

\* the task, the user message and the artifacts of the reducer scenarios
StreamTask == TaskUuid(1)
StreamContext == "c1"
StreamUser == Msg("m1", UserParts)
ArtifactA == Artifact("a1", <<TextPart("a")>>, "file1", "first", {<<"foo", 1>>})
ArtifactB == Artifact("a1", <<TextPart("b")>>, "file2", None, {<<"bar", 2>>})
ArtifactC == Artifact("a1", <<TextPart("c")>>, None, None, {})
ArtifactD == Artifact("a2", <<TextPart("d")>>, None, None, {})
StreamArtifacts == {ArtifactA, ArtifactB, ArtifactC, ArtifactD}
StreamEvents ==
  {TaskEvent(StreamTask, StreamContext, "submitted", NoMsg, <<StreamUser>>),
   StatusUpdate(StreamTask, StreamContext, "working", Msg("ma", HandlerParts), FALSE),
   StatusUpdate(StreamTask, StreamContext, "completed", Msg("mb", HandlerParts), TRUE)}
  \cup {ArtifactUpdate(StreamTask, StreamContext, a, app) :
          a \in StreamArtifacts, app \in BOOLEAN}

\* the manager before its first event
Manager0 == Manager(NoTask, <<>>, NoMsg, seeded.store, seeded.sarts)

\* another request has saved the task, with or without an artifact, before this
\* manager is handed its first event
SeedStore(as) ==
  /\ stream[1] = <<>>
  /\ store[StreamTask] = NoTask
  /\ LET t == Task(StreamTask, StreamContext, "working", NoMsg, <<StreamUser>>) IN
       /\ store' = save(store, t)
       /\ sarts' = [sarts EXCEPT ![StreamTask] = as]
       /\ seeded' = [store |-> save(store, t), sarts |-> [sarts EXCEPT ![StreamTask] = as]]
  /\ UNCHANGED <<busVars, busxVars, reqVars, queueVars, rmVars, execVars, yielded,
                 cancelVars, arts, stream, rid, rhl,
                 pushNotifications, pushConfig, cliVars>>

\* resultManager.processEvent(e)
RMProcess(r, e) ==
  /\ Len(stream[r]) < MaxStream
  /\ LET rm == reduce(Manager(cur[r], arts[r], finalMsg[r], store, sarts), StreamUser, e) IN
       /\ cur' = [cur EXCEPT ![r] = rm.cur]
       /\ arts' = [arts EXCEPT ![r] = rm.arts]
       /\ finalMsg' = [finalMsg EXCEPT ![r] = rm.finalMsg]
       /\ store' = rm.store
       /\ sarts' = rm.sarts
  /\ stream' = [stream EXCEPT ![r] = Append(@, e)]
  /\ UNCHANGED <<busVars, busxVars, reqVars, queueVars, execVars, yielded, cancelVars,
                 seeded, rid, rhl,
                 pushNotifications, pushConfig, cliVars>>

NextReduce ==
  \/ \E as \in {<<>>, <<ArtifactA>>} : SeedStore(as)
  \/ \E e \in StreamEvents : RMProcess(1, e)

SpecReduce == Init /\ [][NextReduce]_vars


\* ---- Request Handler: resubscribe ---------------------------------------------
\* Tasks t1 and t2 share the context c1; t1 has been saved by an earlier request.
\* Publishers (executors, cancelTask) publish events of both tasks on the context.
ResubContext == "c1"
ResubTasks ==
  {Task(TaskUuid(1), ResubContext, st, NoMsg, <<StreamUser>>) : st \in {"working", "completed"}}
ResubEvents ==
  {StatusUpdate(t, ResubContext, "working", Msg("ma", HandlerParts), FALSE) : t \in TaskIds}
  \cup {StatusUpdate(t, ResubContext, "completed", Msg("mb", HandlerParts), TRUE) : t \in TaskIds}
  \cup {TaskEvent(TaskUuid(2), ResubContext, "submitted", NoMsg, <<StreamUser>>),
        MessageEvent(ResubContext, HandlerMsg)}

\* the Task object as the stream yields it
AsEvent(t) == TaskEvent(t.id, t.contextId, t.state, t.msg, t.history)

\* a filter that lets every task-related event of the context through
ResubYieldsAny(e, id) == e.kind \in {"status-update", "artifact-update", "task"}
\* resubscribe: only events of the requested task are yielded
ResubYields(e, id) ==
  e.kind \in {"status-update", "artifact-update", "task"} /\ e.taskId = id

\* an earlier request has saved the task
EnvSave(t) ==
  /\ store[t.id] = NoTask
  /\ store' = save(store, t)
  /\ UNCHANGED <<busVars, busxVars, extVars, reqVars, queueVars, rmVars, execVars, yielded,
                 cancelVars>>

\* resubscribe({id}) up to its first yield: load the task, fail or yield it
ResubStart(r, id) ==
  /\ rpc[r] = "idle"
  /\ \A q \in Reqs : q < r => rpc[q] # "idle"
  /\ rid' = [rid EXCEPT ![r] = id]
  /\ rop' = [rop EXCEPT ![r] = "resub"]
  /\ IF load(store, id) = NoTask
     THEN /\ rpc' = [rpc EXCEPT ![r] = "failed"]
          /\ rresult' = [rresult EXCEPT ![r] = ErrorResult("TaskNotFound")]
          /\ gpc' = [gpc EXCEPT ![r] = "ended"]
          /\ UNCHANGED yielded
     ELSE /\ rpc' = [rpc EXCEPT ![r] = "wait"]
          /\ yielded' = [yielded EXCEPT ![r] = <<AsEvent(load(store, id))>>]
          /\ gpc' = [gpc EXCEPT ![r] = "atYield"]
          /\ UNCHANGED rresult
  /\ UNCHANGED <<busVars, busxVars, store, rmsg, rctx, rtimer, qbuf, qstopped, rmVars,
                 execVars, cancelVars, arts, sarts, stream, seeded, rhl,
                 pushNotifications, pushConfig, cliVars>>

\* the consumer asks for the next event: a terminal task ends the stream, otherwise
\* the Event Queue is created on the task's context
ResubResume(r) ==
  /\ rop[r] = "resub" /\ rpc[r] = "wait" /\ gpc[r] = "atYield"
  /\ LET task == yielded[r][1] IN
     IF isFinal(task.state)
     THEN /\ rpc' = [rpc EXCEPT ![r] = "returned"]
          /\ gpc' = [gpc EXCEPT ![r] = "ended"]
          /\ UNCHANGED <<rctx, pollers, contextListeners, attached>>
     ELSE /\ gpc' = [gpc EXCEPT ![r] = "running"]
          /\ rctx' = [rctx EXCEPT ![r] = task.contextId]
          /\ pollers' = registerContext(pollers, task.contextId)
          /\ contextListeners' = [contextListeners EXCEPT ![task.contextId] = r]
          /\ attached' = attached \cup {r}
          /\ UNCHANGED rpc
  /\ UNCHANGED <<topic, store, busxVars, extVars, rop, rmsg, rresult, rtimer, qbuf, qstopped,
                 rmVars, execVars, yielded, cancelVars>>

\* the loop over eventQueue.events(): the head of the buffer is taken, yielded if
\* it belongs to the task; a message / final status-update ends the queue and with
\* it the stream (finally: stop(), unregisterContext)
ProcessResub(r) ==
  /\ rop[r] = "resub" /\ rpc[r] = "wait" /\ gpc[r] = "running"
  /\ ~qstopped[r]
  /\ qbuf[r] # <<>>
  /\ LET e == Head(qbuf[r])
         c == rctx[r]
     IN
     /\ qbuf' = [qbuf EXCEPT ![r] = Tail(@)]
     /\ yielded' = [yielded EXCEPT ![r] = IF ResubYields(e, rid[r]) THEN Append(@, e) ELSE @]
     /\ IF EndsQueue(e)
        THEN /\ qstopped' = [qstopped EXCEPT ![r] = TRUE]
             /\ gpc' = [gpc EXCEPT ![r] = "ended"]
             /\ pollers' = unregisterPollers(pollers, c)
             /\ attached' = unregisterAttached(attached, contextListeners, c)
             /\ contextListeners' = unregisterListeners(contextListeners, c)
             /\ rpc' = [rpc EXCEPT ![r] = "returned"]
        ELSE UNCHANGED <<qstopped, gpc, pollers, attached, contextListeners, rpc>>
  /\ UNCHANGED <<topic, store, busxVars, extVars, rop, rmsg, rctx, rresult, rtimer, rmVars,
                 execVars, cancelVars>>

NextResub ==
  \/ \E t \in ResubTasks : EnvSave(t)
  \/ \E e \in ResubEvents : EnvPublish(e)
  \/ \E r \in Reqs : \E id \in TaskIds : ResubStart(r, id)
  \/ \E r \in Reqs : ResubResume(r)
  \/ \E c \in Contexts : Poll(c)
  \/ \E r \in Reqs : ProcessResub(r)

SpecResub == Init /\ [][NextResub]_vars


\* ---- Request Handler: getTask --------------------------------------------------
MaxHistory == 3      \* history entries of a stored task

HistoryEntries == <<Msg("m1", UserParts), Msg("ma", HandlerParts), Msg("mb", HandlerParts)>>
GetTasks ==
  {Task(TaskUuid(1), "c1", st, NoMsg, SubSeq(HistoryEntries, 1, n)) :
     st \in {"working", "completed"}, n \in 0..MaxHistory}
HistoryLengths == {NoHistoryLength} \cup 0..(MaxHistory + 1)

\* Array.prototype.slice(start) for an integer start
slice(a, start) ==
  LET from == IF start < 0 THEN (IF Len(a) + start < 0 THEN 0 ELSE Len(a) + start)
              ELSE (IF start > Len(a) THEN Len(a) ELSE start)
  IN SubSeq(a, from + 1, Len(a))

\* getTask({id, historyLength})
GetTask(r, id, hl) ==
  /\ rpc[r] = "idle"
  /\ \A q \in Reqs : q < r => rpc[q] # "idle"
  /\ rop' = [rop EXCEPT ![r] = "get"]
  /\ rid' = [rid EXCEPT ![r] = id]
  /\ rhl' = [rhl EXCEPT ![r] = hl]
  /\ LET task == load(store, id) IN
     IF task = NoTask
     THEN /\ rpc' = [rpc EXCEPT ![r] = "failed"]
          /\ rresult' = [rresult EXCEPT ![r] = ErrorResult("TaskNotFound")]
     ELSE /\ rpc' = [rpc EXCEPT ![r] = "returned"]
          /\ rresult' = [rresult EXCEPT ![r] =
               TaskResult(IF hl >= 0 THEN [task EXCEPT !.history = slice(@, 0 - hl)]
                          ELSE task)]
  /\ UNCHANGED <<busVars, busxVars, store, rmsg, rctx, rtimer, queueVars, rmVars, execVars,
                 yielded, cancelVars, arts, sarts, stream, seeded,
                 pushNotifications, pushConfig, cliVars>>

NextGetTask ==
  \/ \E t \in GetTasks : EnvSave(t)
  \/ \E r \in Reqs : \E id \in TaskIds : \E hl \in HistoryLengths : GetTask(r, id, hl)

SpecGetTask == Init /\ [][NextGetTask]_vars


\* ---- Request Handler: push notification config -----------------------------------
PushCapabilities == {"unset", "false", "true"}
PushConfigs == {"https://p.com", "https://q.com"}
\* JSON-RPC error codes of A2AError
ErrorCode(err) ==
  CASE err = "TaskNotFound" -> -32001
    [] err = "TaskNotCancelable" -> -32002
    [] err = "PushNotificationNotSupported" -> -32003
    [] err = "InvalidParams" -> -32602
    [] OTHER -> -32603
ConfigResult(id, cfg) ==
  [kind |-> "config", task |-> NoTask, msg |-> NoMsg, error |-> None, taskId |-> id,
   pushNotificationConfig |-> cfg]

\* a handler constructed with any agent card
InitPush == InitHandler /\ pushNotifications \in PushCapabilities

\* a set that looks for the task before it looks at the agent card
SetPushConfigTaskFirst(r, id, cfg) ==
  /\ rpc[r] = "idle"
  /\ \A q \in Reqs : q < r => rpc[q] # "idle"
  /\ rop' = [rop EXCEPT ![r] = "setPush"]
  /\ rid' = [rid EXCEPT ![r] = id]
  /\ IF load(store, id) = NoTask
     THEN /\ rpc' = [rpc EXCEPT ![r] = "failed"]
          /\ rresult' = [rresult EXCEPT ![r] = ErrorResult("TaskNotFound")]
          /\ UNCHANGED pushConfig
     ELSE IF pushNotifications # "true"
     THEN /\ rpc' = [rpc EXCEPT ![r] = "failed"]
          /\ rresult' = [rresult EXCEPT ![r] = ErrorResult("PushNotificationNotSupported")]
          /\ UNCHANGED pushConfig
     ELSE /\ rpc' = [rpc EXCEPT ![r] = "returned"]
          /\ rresult' = [rresult EXCEPT ![r] = ConfigResult(id, cfg)]
          /\ pushConfig' = [pushConfig EXCEPT ![id] = cfg]
  /\ UNCHANGED <<busVars, busxVars, store, rmsg, rctx, rtimer, queueVars, rmVars, execVars,
                 yielded, cancelVars, arts, sarts, stream, seeded, rhl, pushNotifications,
                 cliVars>>

\* setTaskPushNotificationConfig({taskId, pushNotificationConfig})
SetPushConfig(r, id, cfg) ==
  /\ rpc[r] = "idle"
  /\ \A q \in Reqs : q < r => rpc[q] # "idle"
  /\ rop' = [rop EXCEPT ![r] = "setPush"]
  /\ rid' = [rid EXCEPT ![r] = id]
  /\ IF pushNotifications # "true"
     THEN /\ rpc' = [rpc EXCEPT ![r] = "failed"]
          /\ rresult' = [rresult EXCEPT ![r] = ErrorResult("PushNotificationNotSupported")]
          /\ UNCHANGED pushConfig
     ELSE IF load(store, id) = NoTask
     THEN /\ rpc' = [rpc EXCEPT ![r] = "failed"]
          /\ rresult' = [rresult EXCEPT ![r] = ErrorResult("TaskNotFound")]
          /\ UNCHANGED pushConfig
     ELSE /\ rpc' = [rpc EXCEPT ![r] = "returned"]
          /\ rresult' = [rresult EXCEPT ![r] = ConfigResult(id, cfg)]
          /\ pushConfig' = [pushConfig EXCEPT ![id] = cfg]
  /\ UNCHANGED <<busVars, busxVars, store, rmsg, rctx, rtimer, queueVars, rmVars, execVars,
                 yielded, cancelVars, arts, sarts, stream, seeded, rhl, pushNotifications,
                 cliVars>>

\* getTaskPushNotificationConfig({id})
GetPushConfig(r, id) ==
  /\ rpc[r] = "idle"
  /\ \A q \in Reqs : q < r => rpc[q] # "idle"
  /\ rop' = [rop EXCEPT ![r] = "getPush"]
  /\ rid' = [rid EXCEPT ![r] = id]
  /\ IF pushNotifications # "true"
     THEN /\ rpc' = [rpc EXCEPT ![r] = "failed"]
          /\ rresult' = [rresult EXCEPT ![r] = ErrorResult("PushNotificationNotSupported")]
     ELSE IF load(store, id) = NoTask
     THEN /\ rpc' = [rpc EXCEPT ![r] = "failed"]
          /\ rresult' = [rresult EXCEPT ![r] = ErrorResult("TaskNotFound")]
     ELSE IF pushConfig[id] = None
     THEN /\ rpc' = [rpc EXCEPT ![r] = "failed"]
          /\ rresult' = [rresult EXCEPT ![r] = ErrorResult("InternalError")]
     ELSE /\ rpc' = [rpc EXCEPT ![r] = "returned"]
          /\ rresult' = [rresult EXCEPT ![r] = ConfigResult(id, pushConfig[id])]
  /\ UNCHANGED <<busVars, busxVars, store, rmsg, rctx, rtimer, queueVars, rmVars, execVars,
                 yielded, cancelVars, arts, sarts, stream, seeded, rhl, pushNotifications,
                 pushConfig, cliVars>>

NextPush ==
  \/ \E t \in ResubTasks : EnvSave(t)
  \/ \E r \in Reqs : \E id \in TaskIds : \E cfg \in PushConfigs : SetPushConfig(r, id, cfg)
  \/ \E r \in Reqs : \E id \in TaskIds : GetPushConfig(r, id)

SpecPush == InitPush /\ [][NextPush]_vars


\* ---- MomentoTaskStore: artifact payloads externalized to side keys ----------
MaxParts == 2
\* a part's metadata, file or data property, present or absent
Metadata(entries) == [present |-> TRUE, entries |-> entries]
NoMetadata == [present |-> FALSE, entries |-> {}]
NoFile == [absent |-> TRUE]
Data(entries) == [entries |-> entries]
NoData == [absent |-> TRUE]
FileWithBytes(bytes) == [bytes |-> bytes]
FileNamed(bytes, name, mimeType) == [bytes |-> bytes, name |-> name, mimeType |-> mimeType]
FileWithUri(uri) == [uri |-> uri]
FilePart(file, metadata) == [kind |-> "file", file |-> file, metadata |-> metadata]
DataPart(data, metadata) == [kind |-> "data", data |-> data, metadata |-> metadata]
StoredTask(id, artifacts) == [id |-> id, kind |-> "task", artifacts |-> artifacts]

\* atob / btoa on the base64 strings of the model
atob(b64) ==
  CASE b64 = "aGk=" -> <<104, 105>>
    [] b64 = "AQI=" -> <<1, 2>>
    [] OTHER -> <<>>
btoa(bytes) ==
  CASE bytes = <<104, 105>> -> "aGk="
    [] bytes = <<1, 2>> -> "AQI="
    [] OTHER -> ""
base64ToUint8Array(base64) == atob(base64)
\* JSON.stringify / JSON.parse of a body
JSONstringify(v) == [json |-> v]
JSONparse(body) == body.json

\* `artifact:${task.id}:${artifact.artifactId}:${uuidv4()}`
CacheKey(taskId, artifactId, uuid) == <<"artifact", taskId, artifactId, uuid>>
\* the key of the task itself: task.id
TaskKey(taskId) == <<"task", taskId>>
HasCacheKey(metadata) == metadata.present /\ \E q \in metadata.entries : q[1] = "cacheKey"
GetCacheKey(metadata) == (CHOOSE q \in metadata.entries : q[1] = "cacheKey")[2]
SetCacheKey(metadata, k) ==
  Metadata({q \in metadata.entries : q[1] # "cacheKey"} \cup {<<"cacheKey", k>>})
DeleteCacheKey(metadata) == Metadata({q \in metadata.entries : q[1] # "cacheKey"})

\* save: the parts whose payload goes to a side key
Externalized(part) ==
  \/ part.kind = "file" /\ part.file # NoFile /\ "bytes" \in DOMAIN part.file
       /\ part.file.bytes # ""
  \/ part.kind = "data" /\ part.data # NoData
Slots(task) ==
  {s \in (1..Len(task.artifacts)) \X (1..MaxParts) :
     /\ s[2] <= Len(task.artifacts[s[1]].parts)
     /\ Externalized(task.artifacts[s[1]].parts[s[2]])}
SlotKey(task, uuids, s) ==
  CacheKey(task.id, task.artifacts[s[1]].artifactId, uuids + (s[1] - 1) * MaxParts + s[2])
SlotBody(part) ==
  IF part.kind = "file" THEN base64ToUint8Array(part.file.bytes) ELSE JSONstringify(part.data)
\* save: the part as it is left in the task object
savePart(part, k) ==
  IF part.kind = "file"
  THEN [part EXCEPT !.metadata = SetCacheKey(@, k), !.file = NoFile]
  ELSE [part EXCEPT !.metadata = SetCacheKey(@, k), !.data = NoData]

\* MomentoTaskStore.save(task): the cache and the task object after the call
MomentoTaskStore_save(kv, task, uuids) ==
  LET slots == Slots(task)
      side == [k \in {SlotKey(task, uuids, s) : s \in slots} |->
                 LET s == CHOOSE s \in slots : SlotKey(task, uuids, s) = k
                 IN SlotBody(task.artifacts[s[1]].parts[s[2]])]
      mutated ==
        [task EXCEPT !.artifacts =
           [a \in 1..Len(@) |->
              [@[a] EXCEPT !.parts =
                 [i \in 1..Len(@) |->
                    IF <<a, i>> \in slots
                    THEN savePart(@[i], SlotKey(task, uuids, <<a, i>>))
                    ELSE @[i]]]]]
  IN [cache |-> (TaskKey(task.id) :> JSONstringify(mutated)) @@ side @@ kv,
      task |-> mutated]

\* load: a part with a cacheKey gets its payload back and loses the cacheKey
loadPart(kv, part) ==
  IF part.kind = "file" /\ HasCacheKey(part.metadata)
  THEN LET k == GetCacheKey(part.metadata) IN
         [part EXCEPT !.file = IF k \in DOMAIN kv THEN [bytes |-> btoa(kv[k])] ELSE @,
                      !.metadata = DeleteCacheKey(@)]
  ELSE IF part.kind = "data" /\ HasCacheKey(part.metadata)
  THEN LET k == GetCacheKey(part.metadata) IN
         [part EXCEPT !.data = IF k \in DOMAIN kv THEN JSONparse(kv[k]) ELSE @,
                      !.metadata = DeleteCacheKey(@)]
  ELSE part

\* MomentoTaskStore.load(taskId)
MomentoTaskStore_load(kv, taskId) ==
  IF TaskKey(taskId) \notin DOMAIN kv THEN NoStoredTask
  ELSE LET task == JSONparse(kv[TaskKey(taskId)]) IN
         [task EXCEPT !.artifacts =
            [a \in 1..Len(@) |->
               [@[a] EXCEPT !.parts = [i \in 1..Len(@) |-> loadPart(kv, @[i])]]]]

\* the tasks handed to save
StoreMetadata == {NoMetadata, Metadata({<<"k", "v">>})}
StoreFiles == {FileWithBytes("aGk="), FileNamed("AQI=", "f.txt", "text/plain"),
               FileWithBytes(""), FileWithUri("https://x/f")}
StoreData == {Data({<<"foo", 42>>}), Data({})}
StoreParts ==
  {TextPart("x")}
  \cup {FilePart(f, md) : f \in StoreFiles, md \in StoreMetadata}
  \cup {DataPart(d, md) : d \in StoreData, md \in StoreMetadata}
StorePartLists ==
  {<<p>> : p \in StoreParts} \cup {<<p, q>> : p \in StoreParts, q \in StoreParts}
StoreTasks ==
  {StoredTask(TaskUuid(1), as) :
     as \in {<<>>} \cup {<<Artifact("a1", ps, "file", None, {})>> : ps \in StorePartLists}}

\* store.save(task)
StoreSave(task) ==
  /\ tsave.pc = "idle"
  /\ LET sv == MomentoTaskStore_save(cache, task, tsave.uuids) IN
       /\ cache' = sv.cache
       /\ tsave' = [tsave EXCEPT !.pc = "saved", !.arg = sv.task, !.orig = task,
                                 !.uuids = @ + MaxParts]
  /\ UNCHANGED <<busVars, busxVars, store, reqVars, queueVars, rmVars, execVars, yielded,
                 cancelVars, arts, sarts, stream, seeded, rid, rhl,
                 pushNotifications, pushConfig, http, mem>>

\* store.load(task.id)
StoreLoad(taskId) ==
  /\ tsave.pc = "saved"
  /\ tsave' = [tsave EXCEPT !.pc = "loaded", !.loaded = MomentoTaskStore_load(cache, taskId)]
  /\ UNCHANGED <<busVars, busxVars, store, reqVars, queueVars, rmVars, execVars, yielded,
                 cancelVars, arts, sarts, stream, seeded, rid, rhl,
                 pushNotifications, pushConfig, cache, http, mem>>

NextStore ==
  \/ \E task \in StoreTasks : StoreSave(task)
  \/ StoreLoad(TaskUuid(1))

SpecStore == Init /\ [][NextStore]_vars

\* ---- MomentoClient: makeRequest and retry ---------------------------------
\* retry's default parameters
Retries == 3
DelayMs == 100
\* what one fetch() does: it rejects (a TypeError on a network failure, another
\* error otherwise) or it resolves with a Response of some status
Thrown(name) == [thrown |-> TRUE, name |-> name, status |-> 0]
Response(status) == [thrown |-> FALSE, name |-> "Response", status |-> status]
Statuses == {200, 204, 400, 404, 429, 500, 503}
FetchOutcomes == {Thrown("TypeError"), Thrown("Error")} \cup {Response(st) : st \in Statuses}
ClientOps == {"get", "set", "topicPublish", "topicSubscribe"}
ok(response) == response.status >= 200 /\ response.status < 300

\* retry's catch block sees only what fn() rejected with: err.status of an Error
\* or a TypeError is undefined
isTransient(err) ==
  \/ err.name = "TypeError"
  \/ err.name = "Response" /\ err.status >= 500 /\ err.status < 600
\* what reaches retry's catch block
caught(o) == o.thrown

\* get / set / topicPublish / topicSubscribe: what the call makes of the outcome
Value(v) == [kind |-> "value", status |-> v]
Rejected(o) == [kind |-> "error", status |-> IF o.thrown THEN o.name ELSE ToString(o.status)]
callResult(op, throwOnError, o) ==
  IF o.thrown
  THEN IF op = "get" /\ ~throwOnError THEN Value("undefined") ELSE Rejected(o)
  ELSE IF op = "get" /\ o.status = 404 THEN Value("undefined")
  ELSE IF ~ok(o) THEN IF throwOnError THEN Rejected(o) ELSE Value("undefined")
  ELSE Value("ok")

\* makeRequest(url, options): retry(() => fetch(...)) with the default parameters
MakeRequest(op, throwOnError) ==
  /\ http.pc = "idle"
  /\ http' = [http EXCEPT !.pc = "fetch", !.retries = Retries, !.delayMs = DelayMs,
                          !.result = [op |-> op, throwOnError |-> throwOnError]]
  /\ UNCHANGED <<busVars, busxVars, store, reqVars, queueVars, rmVars, execVars, yielded,
                 cancelVars, arts, sarts, stream, seeded, rid, rhl,
                 pushNotifications, pushConfig, cache, tsave, mem>>

\* retry: await fn(), and the catch block when fn() rejects
Fetch(o) ==
  /\ http.pc = "fetch"
  /\ http' = [http EXCEPT
       !.fetches = Append(@, o),
       !.pc = IF ~caught(o) THEN "returned"
              ELSE IF ~isTransient(o) \/ http.retries <= 0 THEN "thrown"
              ELSE "sleep",
       !.result = IF caught(o) /\ isTransient(o) /\ http.retries > 0 THEN @
                  ELSE callResult(@.op, @.throwOnError, o)]
  /\ UNCHANGED <<busVars, busxVars, store, reqVars, queueVars, rmVars, execVars, yielded,
                 cancelVars, arts, sarts, stream, seeded, rid, rhl,
                 pushNotifications, pushConfig, cache, tsave, mem>>

\* retry: the setTimeout of delayMs has passed, retry(fn, retries - 1, delayMs * 2)
RetryAfterDelay ==
  /\ http.pc = "sleep"
  /\ http' = [http EXCEPT !.pc = "fetch", !.waits = Append(@, http.delayMs),
                          !.retries = @ - 1, !.delayMs = @ * 2]
  /\ UNCHANGED <<busVars, busxVars, store, reqVars, queueVars, rmVars, execVars, yielded,
                 cancelVars, arts, sarts, stream, seeded, rid, rhl,
                 pushNotifications, pushConfig, cache, tsave, mem>>

NextRetry ==
  \/ \E op \in ClientOps : \E throwOnError \in BOOLEAN : MakeRequest(op, throwOnError)
  \/ \E o \in FetchOutcomes : Fetch(o)
  \/ RetryAfterDelay

SpecRetry == Init /\ [][NextRetry]_vars

\* ---- sendMessage calls made one after the other, with their 30 s timers ---------
\* the second call is made only after the first has returned or failed
StartLater(r, m) ==
  /\ r > 1
  /\ rpc[r - 1] \in {"returned", "failed"}
  /\ Start(r, "send", m)

NextTimerLate ==
  \/ \E m \in Messages(1) : Start(1, "send", m)
  \/ \E r \in Reqs : \E m \in Messages(r) : StartLater(r, m)
  \/ Executor
  \/ \E c \in Contexts : Poll(c)
  \/ \E r \in Reqs : ProcessSend(r)
  \/ \E r \in Reqs : TimerFire(r)

SpecTimerLate == Init /\ [][NextTimerLate]_vars

\* ---- sendMessage when resultManager.processEvent throws ----------------------------
\* uuidv4() of the failed event sendMessage publishes when it holds no task
FailedUuid(r) == "f" \o ToStr(r)
\* the task sendMessage loaded for msg.taskId (undefined for a new message)
LoadedTaskId(r) == rmsg[r].taskId
\* the failed status-update sendMessage publishes from its catch block
ProcessingFailed(r) ==
  StatusUpdate(IF LoadedTaskId(r) # None THEN LoadedTaskId(r) ELSE FailedUuid(r), rctx[r],
               "failed",
               Msg(rmsg[r].messageId, <<TextPart("Event processing failed: store error")>>),
               TRUE)

\* sendMessage: events() yields the head of the buffer and processEvent rejects
\* (its Task Store call fails): the failed event is published, the error is
\* re-thrown, the finally block stops the queue and the call fails with the error
ProcessSendThrows(r) ==
  /\ rop[r] = "send"
  /\ rpc[r] = "wait"
  /\ ~qstopped[r]
  /\ qbuf[r] # <<>>
  /\ Head(qbuf[r]).kind # "message"
  /\ qbuf' = [qbuf EXCEPT ![r] = Tail(@)]
  /\ topic' = publish(topic, ProcessingFailed(r))
  /\ qstopped' = [qstopped EXCEPT ![r] = TRUE]
  /\ gpc' = [gpc EXCEPT ![r] = "ended"]
  /\ pollers' = unregisterPollers(pollers, rctx[r])
  /\ attached' = unregisterAttached(attached, contextListeners, rctx[r])
  /\ contextListeners' = unregisterListeners(contextListeners, rctx[r])
  /\ rpc' = [rpc EXCEPT ![r] = "failed"]
  /\ rresult' = [rresult EXCEPT ![r] = ErrorResult("store error")]
  /\ UNCHANGED <<store, rop, rmsg, rctx, rtimer, rmVars, execVars, yielded, cancelVars>>
  /\ UNCHANGED busxVars
  /\ UNCHANGED extVars

NextThrow ==
  \/ \E r \in Reqs : \E m \in Messages(r) : Start(r, "send", m)
  \/ Executor
  \/ \E c \in Contexts : Poll(c)
  \/ \E r \in Reqs : ProcessSend(r)
  \/ \E r \in Reqs : ProcessSendThrows(r)

SpecThrow == Init /\ [][NextThrow]_vars

\* ---- InMemoryTaskStore: expiry of a stored task -----------------------------
MaxTime == 5         \* seconds the clock runs
MaxSaves == 3        \* save calls
\* ttlSeconds of a save: 0 for a call without ttlSeconds
Ttls == {0, 1, 2}

\* cleanup(taskId): the entry is deleted, the timer cleared
cleanup(m) == [m EXCEPT !.stored = FALSE, !.expiresAt = 0, !.timer = 0]

\* save(task, ttlSeconds): the entry is replaced; only a truthy ttlSeconds
\* reaches scheduleExpiration, which clears the existing timer and sets a new one
MemSave(ttl) ==
  /\ mem.saves < MaxSaves
  /\ mem' = [mem EXCEPT !.stored = TRUE,
                        !.expiresAt = IF ttl # 0 THEN mem.now + ttl ELSE 0,
                        !.timer = IF ttl # 0 THEN mem.now + ttl ELSE @,
                        !.saves = @ + 1, !.lastAt = mem.now, !.lastTtl = ttl,
                        !.loaded = None]
  /\ UNCHANGED <<busVars, busxVars, store, reqVars, queueVars, rmVars, execVars, yielded,
                 cancelVars, arts, sarts, stream, seeded, rid, rhl,
                 pushNotifications, pushConfig, cache, tsave, http>>

\* load(taskId): undefined for no entry, cleanup and undefined for an expired one
MemLoad ==
  /\ mem.saves > 0
  /\ mem' = IF ~mem.stored THEN [mem EXCEPT !.loaded = "undefined"]
            ELSE IF mem.expiresAt # 0 /\ mem.now >= mem.expiresAt
            THEN [cleanup(mem) EXCEPT !.loaded = "undefined"]
            ELSE [mem EXCEPT !.loaded = "task"]
  /\ UNCHANGED <<busVars, busxVars, store, reqVars, queueVars, rmVars, execVars, yielded,
                 cancelVars, arts, sarts, stream, seeded, rid, rhl,
                 pushNotifications, pushConfig, cache, tsave, http>>

\* the setTimeout callback of scheduleExpiration runs at its deadline
MemExpire ==
  /\ mem.timer # 0 /\ mem.now >= mem.timer
  /\ mem' = [cleanup(mem) EXCEPT !.loaded = None]
  /\ UNCHANGED <<busVars, busxVars, store, reqVars, queueVars, rmVars, execVars, yielded,
                 cancelVars, arts, sarts, stream, seeded, rid, rhl,
                 pushNotifications, pushConfig, cache, tsave, http>>

\* one second passes; a timer that is due runs first
MemTick ==
  /\ mem.now < MaxTime
  /\ mem.timer = 0 \/ mem.now < mem.timer
  /\ mem' = [mem EXCEPT !.now = @ + 1, !.loaded = None]
  /\ UNCHANGED <<busVars, busxVars, store, reqVars, queueVars, rmVars, execVars, yielded,
                 cancelVars, arts, sarts, stream, seeded, rid, rhl,
                 pushNotifications, pushConfig, cache, tsave, http>>

NextTtl ==
  \/ \E ttl \in Ttls : MemSave(ttl)
  \/ MemLoad
  \/ MemExpire
  \/ MemTick

SpecTtl == Init /\ [][NextTtl]_vars

\* ---- properties -----------------------------------------------------------------
\* every published event, whoever published it
PublishedEvents == UNION {{topic[c][i] : i \in 1..Len(topic[c])} : c \in Contexts}

\* C1: every status-update with final = true published for a task, by the
\* executor for any handler result or failure and by cancelTask, carries one of
\* the states completed, failed, canceled, rejected.
C1_FinalStateIsTerminal ==
  \A e \in PublishedEvents : (e.kind = "status-update" /\ e.final) => isFinal(e.state)

C3_TerminalStatusKept ==
  [][\A t \in TaskIds :
       isFinal(load(store, t).state) =>
         /\ load(store', t).state = load(store, t).state
         /\ load(store', t).msg = load(store, t).msg]_vars

\* every poller has delivered all of its topic and request r has consumed all
\* it was delivered
Drained(r) ==
  /\ qbuf[r] = <<>>
  /\ \A c \in Contexts : pollers[c] = NoPoller \/ pollers[c] = Len(topic[c])

\* the handler of request r has returned the string and execute has finished
ReturnedString(r) ==
  /\ epc[r] = "done"
  /\ execLog[r][Len(execLog[r])].state = "completed"

\* C4: sendMessage with a messageId, no contextId and no taskId, whose handler
\* returns the string s, returns a completed task whose status message is the
\* single text part s and whose history has length 1.
C4_EchoReturnsCompleted ==
  \A r \in Reqs :
    (/\ rop[r] = "send"
     /\ rmsg[r].contextId = None
     /\ rmsg[r].taskId = None
     /\ ReturnedString(r)
     /\ Drained(r))
    => /\ rpc[r] = "returned"
       /\ rresult[r].kind = "task"
       /\ rresult[r].task.state = "completed"
       /\ rresult[r].task.msg.parts = <<TextPart(HandlerString)>>
       /\ Len(rresult[r].task.history) = 1

\* C5: when cancelTask is called for a task whose handler, started by a
\* sendMessage call, is still running, that sendMessage call returns the task
\* in state canceled.
C5_SendReturnsCanceled ==
  \A k \in Cancels : \A r \in Reqs :
    (/\ crunning[k]
     /\ cpc[k] = "done"
     /\ rop[r] = "send"
     /\ etask[r].id = ctask[k].id
     /\ rpc[r] # "wait")
    => /\ rresult[r].kind = "task"
       /\ rresult[r].task.state = "canceled"

\* C6: after an Event Queue has yielded a Message or a final status-update,
\* events() ends, it yields no further event, and the queue's listener is
\* unregistered from the bus.
C6_EndsAfterFinalYield ==
  \A r \in Reqs :
    LET ys == yielded[r] IN
    /\ \A i \in 1..Len(ys) : EndsQueue(ys[i]) => i = Len(ys)
    /\ (gpc[r] = "ended" /\ ys # <<>> /\ EndsQueue(ys[Len(ys)])) => r \notin attached

\* C7: stop() may be called at any point and any number of times: every call
\* leaves the queue stopped and unregistered, and a stopped queue yields no
\* further event.
C7_StopLeavesStoppedUnregistered ==
  /\ [](\A r \in Reqs : qstopped[r] => r \notin attached)
  /\ [][\A r \in Reqs : qstopped[r] => (qstopped'[r] /\ yielded'[r] = yielded[r])]_vars

\* C8: when its 30 s timer fires, sendMessage waits no longer: a call that has
\* seen no terminal event fails with the timeout error, and its queue is
\* stopped with its listener unregistered.
C8_TimeoutStopsAndFails ==
  \A r \in Reqs :
    rtimer[r] = "fired" =>
      /\ rpc[r] # "wait"
      /\ qstopped[r]
      /\ rresult[r] = ErrorResult("Timeout") => r \notin attached

\* C9: sendMessageStream for a new message whose handler returns a string
\* yields the Task event (submitted), a working status-update (final = false)
\* and a completed status-update (final = true), in this order, and then ends.
C9_StreamYieldsThree ==
  \A r \in Reqs :
    (/\ rop[r] = "stream"
     /\ rmsg[r].taskId = None
     /\ ReturnedString(r)
     /\ Drained(r))
    => /\ rpc[r] = "returned"
       /\ Len(yielded[r]) = 3
       /\ yielded[r][1].kind = "task" /\ yielded[r][1].state = "submitted"
       /\ yielded[r][2].kind = "status-update" /\ yielded[r][2].state = "working"
       /\ ~yielded[r][2].final
       /\ yielded[r][3].kind = "status-update" /\ yielded[r][3].state = "completed"
       /\ yielded[r][3].final

\* C10: the history of the task an accepted sendMessage with messageId m
\* returns contains exactly one entry with messageId m.
C10_HistoryHasMessageOnce ==
  \A r \in Reqs :
    (rop[r] = "send" /\ rpc[r] = "returned" /\ rresult[r].kind = "task")
    => CountMsgId(rresult[r].task.history, rmsg[r].messageId) = 1

\* C11 as stated: execute never throws or rejects.
C11_ExecuteNeverRejects == \A r \in Reqs : epc[r] # "rejected"

\* C11 amended: execute rejects only when it was called without a context
\* object or one of its publish calls failed; when the handler throws and the
\* publish calls succeed, execute returns normally after publishing a final
\* failed status-update whose text is "Agent execution failed: " followed by
\* the error message.
C11_HandlerErrorPublishesFailed ==
  \A r \in Reqs :
    /\ epc[r] = "rejected" => (efail[r] \/ etask[r].id = None)
    /\ (hres[r].tag = "throw" /\ ~efail[r]) =>
         /\ epc[r] = "done"
         /\ LET e == execLog[r][Len(execLog[r])] IN
            /\ e.kind = "status-update" /\ e.final /\ e.state = "failed"
            /\ e.taskId = etask[r].id /\ e.contextId = etask[r].contextId
            /\ e.msg.parts = <<TextPart("Agent execution failed: boom")>>

\* an execute call whose handler threw has returned normally
C11_Witness ==
  \E r \in Reqs : hres[r].tag = "throw" /\ ~efail[r] /\ epc[r] = "done"

\* C12: when the handler returns a task partial that does not supply both
\* status.state and status.message, the task ends with a final status-update
\* in state failed.
C12_IncompletePartialFails ==
  \A r \in Reqs :
    (/\ epc[r] = "done"
     /\ hres[r].tag = "task"
     /\ (~hres[r].hasStatus \/ hres[r].state = None \/ hres[r].msg = NoMsg))
    => /\ execLog[r][Len(execLog[r])].final
       /\ execLog[r][Len(execLog[r])].state = "failed"

\* C13: when the event that ends a sendMessage request's queue is a Message
\* event, sendMessage returns that Message as its result.
C13_MessageIsReturned ==
  \A r \in Reqs :
    (rop[r] = "send" /\ rpc[r] \in {"returned", "failed"} /\ finalMsg[r] # NoMsg)
    => rresult[r] = MessageResult(finalMsg[r])

\* C14: cancelTask on a task whose state is completed, failed, canceled or
\* rejected fails with TaskNotCancelable, saves nothing and publishes nothing.
C14_TerminalNotCancelable ==
  [][\A k \in Cancels : \A id \in TaskIds :
       (/\ CancelLoad(k, id)
        /\ load(store, id).state \in {"completed", "failed", "canceled", "rejected"})
       => /\ cpc'[k] = "failed"
          /\ cresult'[k] = ErrorResult("TaskNotCancelable")
          /\ store' = store
          /\ topic' = topic]_vars

\* cancelTask was called for a stored task in state failed and has failed
C14_Witness ==
  \E k \in Cancels : \E id \in TaskIds :
    /\ cresult[k] = ErrorResult("TaskNotCancelable")
    /\ load(store, id).state = "failed"

\* C15: cancelTask on a stored task in a non-terminal state goes on to persist
\* the task with state canceled, publishes exactly one final status-update
\* with state canceled on the task's contextId, and returns the canceled task.
C15_CancelPersistsAndPublishes ==
  [][\A k \in Cancels :
       /\ \A id \in TaskIds :
            (/\ CancelLoad(k, id)
             /\ load(store, id) # NoTask
             /\ load(store, id).state \notin {"completed", "failed", "canceled", "rejected"})
            => cpc'[k] = "loaded" /\ ctask'[k] = load(store, id)
       /\ CancelSave(k) =>
            LET id == ctask[k].id
                c == ctask[k].contextId
            IN /\ load(store', id).state = "canceled"
               /\ \A d \in Contexts : d # c => topic'[d] = topic[d]
               /\ Len(topic'[c]) = Len(topic[c]) + 1
               /\ SubSeq(topic'[c], 1, Len(topic[c])) = topic[c]
               /\ LET e == topic'[c][Len(topic'[c])] IN
                  /\ e.kind = "status-update" /\ e.final /\ e.state = "canceled"
                  /\ e.taskId = id /\ e.contextId = c
               /\ cresult'[k].kind = "task"
               /\ cresult'[k].task.id = id
               /\ cresult'[k].task.state = "canceled"]_vars

\* cancelTask has canceled a task that had been working
C15_Witness ==
  \E k \in Cancels : cpc[k] = "done" /\ cresult[k].task.state = "canceled"

\* position of the first delivery of sequence number x in a listener's deliveries
FirstAt(sq, x) == CHOOSE i \in DOMAIN sq : sq[i] = x /\ \A j \in 1..(i - 1) : sq[j] # x

\* C16: within one context a listener that is called with the events at sequence
\* numbers a < b is called with a (for the first time) before it is called with b
C16_DeliveredInSequenceOrder ==
  \A r \in Reqs : \A i, j \in DOMAIN recv[r] :
    recv[r][i] < recv[r][j] => FirstAt(recv[r], recv[r][i]) < FirstAt(recv[r], recv[r][j])

\* C17: every discontinuity notification carries as fromSequence the sequence number
\* the poller held before the discontinuity was applied (for the items [event at 0,
\* discontinuity n = 5, p = 2]: fromSequence 1, toSequence 5)
C17_FromSequenceIsPriorSeqNum ==
  \A i \in DOMAIN notes : notes[i].fromSequence = notes[i].seqBefore

\* the registered poll loop of c has just processed a discontinuity
AppliedDiscontinuity(c) ==
  /\ pollers[c] # NoPoller
  /\ pollers'[c] # pollers[c]
  /\ Len(notes') > Len(notes)

\* the sequence numbers s, s + 1, ..., t - 1
SeqRange(s, t) == [i \in 1..(t - s) |-> s + i - 1]

\* C18: a discontinuity (n, p) leaves the poller registered, at page p and at sequence
\* number n + 1 unless items behind the discontinuity moved it further; every later
\* response is delivered in full to the listeners attached for the context; and an
\* event published behind the discontinuity eventually reaches an attached listener
\* for as long as the context stays registered
C18_PollerSurvivesDiscontinuity ==
  /\ [][\A c \in BusContexts :
          /\ AppliedDiscontinuity(c) =>
               LET d == notes'[Len(notes')] IN
                 /\ pollers'[c] # NoPoller
                 /\ ppage'[c] = hole[c].page
                 /\ pollers'[c] >= d.toSequence + 1
                 /\ \A r \in Reqs :
                      (r \in attached /\ rctx[r] = c /\ recv'[r] # <<>>
                         /\ recv'[r][Len(recv'[r])] <= d.toSequence)
                      => pollers'[c] = d.toSequence + 1
                 /\ (attached = {} => pollers'[c] \in (d.toSequence + 1)..Len(topic[c]))
          /\ (PollResponse(c) /\ hole[c] # NoHole /\ pollers[c] > hole[c].hi) =>
               /\ pollers'[c] > pollers[c]
               /\ \A r \in Reqs : r \in attached /\ rctx[r] = c =>
                    recv'[r] = recv[r] \o SeqRange(pollers[c], pollers'[c])]_vars
  /\ \A c \in BusContexts : \A r \in Reqs : \A k \in 0..(MaxLiveSeq - 1) :
       (/\ r \in attached /\ rctx[r] = c
        /\ pollers[c] # NoPoller
        /\ hole[c] # NoHole /\ pollers[c] > hole[c].hi
        /\ pollers[c] <= k /\ k < Len(topic[c]))
       ~> (\/ \E i \in DOMAIN recv[r] : recv[r][i] = k
           \/ r \notin attached
           \/ pollers[c] = NoPoller)

\* a listener has been called with an event behind a discontinuity its poller applied
C18_Witness ==
  \E c \in BusContexts : \E r \in Reqs :
    /\ r \in attached /\ rctx[r] = c
    /\ pollers[c] # NoPoller /\ hole[c] # NoHole
    /\ ppage[c] = hole[c].page
    /\ \E i \in DOMAIN notes : notes[i].toSequence = hole[c].hi
    /\ recv[r] # <<>> /\ recv[r][Len(recv[r])] > hole[c].hi
    /\ orphans = {} /\ calls[c].unreg = 0

\* the listeners attached to the emitter for context c
ListenersOf(c) == {r \in attached : rctx[r] = c}

\* C19: the bus never has more than one listener attached for a context
C19_OneListenerPerContext == \A c \in Contexts : Cardinality(ListenersOf(c)) <= 1

\* C20: once a context has been registered N >= 1 times and unregistered N times, the
\* last call being an unregisterContext, it has no poller and no attached listener
C20_BalancedUnregisterLeavesNothing ==
  \A c \in BusContexts :
    (calls[c].reg >= 1 /\ calls[c].reg = calls[c].unreg /\ calls[c].last = "unregister")
    => pollers[c] = NoPoller /\ ListenersOf(c) = {}

\* the poll loops of context c that still process a topicSubscribe response: the
\* registered one and the aborted ones whose request is in flight
PollLoops(c) ==
  (IF pollers[c] # NoPoller THEN 1 ELSE 0) + Cardinality({o \in orphans : o.contextId = c})

\* C21: registering a context that already has a poller leaves that poller and its
\* position untouched, and a context never has more than one poll loop at work
C21_OnePollLoopPerContext ==
  /\ \A c \in BusContexts : PollLoops(c) <= 1
  /\ \A c \in BusContexts : pollers[c] # NoPoller =>
       registerContext(pollers, c) = pollers

\* C22: a stream with repeated deliveries leaves the manager with the same task
\* snapshot (task and artifacts) as the stream without the repetitions
C22_DuplicatesAreNoOps ==
  LET rm == reduceAll(Manager0, StreamUser, Dedup(stream[1])) IN
    cur[1] = rm.cur /\ arts[1] = rm.arts

\* the manager holds the task of artifact-update e and is handed e
ReducesHeld(e) ==
  /\ e.kind = "artifact-update"
  /\ cur[1] # NoTask /\ cur[1].id = e.taskId
  /\ RMProcess(1, e)

\* the stream of the example: the task, (a1, [a], append false), then
\* (a1, [b], append true, name file2, metadata {bar: 2})
ExampleStream ==
  <<TaskEvent(StreamTask, StreamContext, "submitted", NoMsg, <<StreamUser>>),
    ArtifactUpdate(StreamTask, StreamContext, ArtifactA, FALSE),
    ArtifactUpdate(StreamTask, StreamContext, ArtifactB, TRUE)>>

C24_ResubscribeYieldsOwnTask ==
  \A r \in Reqs : (rop[r] = "resub" /\ yielded[r] # <<>>) =>
    /\ yielded[r][1] = AsEvent(load(store, rid[r]))
    /\ isFinal(yielded[r][1].state) =>
         /\ Len(yielded[r]) = 1
         /\ r \notin attached /\ rctx[r] = None
         /\ gpc[r] \in {"atYield", "ended"}
    /\ \A i \in 2..Len(yielded[r]) :
         /\ yielded[r][i].kind \in {"status-update", "artifact-update", "task"}
         /\ yielded[r][i].taskId = rid[r]

\* a resubscribe stream has passed over an event of another task of its context and
\* yielded an event of its own task
C24_Witness ==
  \E r \in Reqs :
    /\ rop[r] = "resub" /\ Len(yielded[r]) >= 2
    /\ rctx[r] # None /\ qbuf[r] = <<>>
    /\ pollers[rctx[r]] # NoPoller
    /\ \E i \in 1..pollers[rctx[r]] : topic[rctx[r]][i].taskId = TaskUuid(2)

\* the last n entries of a sequence (all of them when it has fewer)
LastEntries(a, n) == IF n >= Len(a) THEN a ELSE SubSeq(a, Len(a) - n + 1, Len(a))

\* C25: getTask returns the stored task with its last min(N, length) history entries
\* when historyLength = N >= 0 is given (none for N = 0), with its full history otherwise
C25_GetTaskHistoryLength ==
  \A r \in Reqs : (rop[r] = "get" /\ rpc[r] = "returned") =>
    LET task == load(store, rid[r])
        got == rresult[r].task IN
      /\ got = [task EXCEPT !.history = got.history]
      /\ got.history = IF rhl[r] >= 0 THEN LastEntries(task.history, rhl[r])
                       ELSE task.history

\* C26: with capabilities.pushNotifications false or unset, every set / get of a push
\* config fails with PushNotificationNotSupported (-32003), for stored and unknown
\* tasks alike, and no push-config key is ever written
C26_PushNotSupported ==
  pushNotifications # "true" =>
    /\ \A t \in TaskIds : pushConfig[t] = None
    /\ \A r \in Reqs : rop[r] \in {"setPush", "getPush"} =>
         /\ rpc[r] = "failed"
         /\ rresult[r] = ErrorResult("PushNotificationNotSupported")
         /\ ErrorCode(rresult[r].error) = -32003

\* both calls have failed on a handler without the capability, one for a stored task
C26_Witness ==
  /\ pushNotifications # "true"
  /\ \E r, q \in Reqs :
       /\ rop[r] = "setPush" /\ rop[q] = "getPush"
       /\ rpc[r] = "failed" /\ rpc[q] = "failed"
       /\ load(store, rid[r]) # NoTask

\* a part's metadata that is absent and one that is empty are taken as equal
NormPart(part) ==
  IF part.kind = "text" THEN part
  ELSE [part EXCEPT !.metadata = Metadata(@.entries)]
NormTask(task) ==
  IF task = NoStoredTask THEN task
  ELSE [task EXCEPT !.artifacts =
          [a \in 1..Len(@) |->
             [@[a] EXCEPT !.parts = [i \in 1..Len(@) |-> NormPart(@[i])]]]]

\* C27: load(task.id) after save(task) returns a task equal to the one that was
\* passed to save, the payloads of its file and data parts included, and no
\* part of it keeps a cacheKey in its metadata
C27_LoadReturnsSavedTask ==
  tsave.pc = "loaded" =>
    /\ NormTask(tsave.loaded) = NormTask(tsave.orig)
    /\ \A a \in 1..Len(tsave.loaded.artifacts) :
         \A i \in 1..Len(tsave.loaded.artifacts[a].parts) :
           LET part == tsave.loaded.artifacts[a].parts[i] IN
             part.kind # "text" => ~HasCacheKey(part.metadata)

\* the transient classes: a network error, or a response with a 5xx status
Transient(o) == o.name = "TypeError" \/ (~o.thrown /\ o.status >= 500 /\ o.status < 600)
Backoff == <<100, 200, 400>>

\* C28: a request that meets a network error or a 5xx response is retried, at
\* most 3 times after the first attempt, after waits of 100 ms, 200 ms and
\* 400 ms; a 4xx response is not retried and its error is returned directly
C28_TransientFailuresAreRetried ==
  /\ Len(http.fetches) <= 1 + Len(Backoff)
  /\ http.waits = SubSeq(Backoff, 1, Len(http.waits))
  /\ \A i \in 1..Len(http.fetches) :
       i < Len(http.fetches) => Transient(http.fetches[i])
  /\ http.pc \in {"returned", "thrown"} =>
       LET last == http.fetches[Len(http.fetches)] IN
         /\ Len(http.waits) = Len(http.fetches) - 1
         /\ Transient(last) => Len(http.fetches) = 1 + Len(Backoff)
         /\ (~last.thrown /\ last.status >= 400 /\ last.status < 500
               /\ ~(http.result.kind = "value" /\ http.result.status = "undefined"))
              => http.result = Rejected(last)

\* a queue that was neither stopped nor has ended
LiveQueue(r) == rpc[r] = "queue" /\ ~qstopped[r] /\ gpc[r] # "ended"

\* C29: two Event Queues on one contextId are independent: after one of them
\* has ended or was stopped, the other, until its own terminating event, still
\* has its listener attached and the context still has its poller
C29_QueuesOnOneContextIndependent ==
  \A r \in Reqs : \A q \in Reqs \ {r} :
    (/\ LiveQueue(r)
     /\ rpc[q] = "queue"
     /\ rctx[q] = rctx[r]
     /\ (qstopped[q] \/ gpc[q] = "ended"))
    => (r \in attached /\ pollers[rctx[r]] # NoPoller)

\* C30: the wait of a request is ended only by the terminal event of its own
\* task: the event on which a resubscribe for task id leaves its Event Queue
\* loop is not a final status-update of another task of the context
C30_OnlyOwnTaskEndsTheWait ==
  [][\A r \in Reqs :
       (/\ rop[r] = "resub" /\ rpc[r] = "wait" /\ gpc[r] = "running"
        /\ rpc'[r] = "returned")
       => LET e == Head(qbuf[r]) IN
            e.kind = "status-update" => e.taskId = rid[r]]_vars

\* C31: the 30 s timer of a sendMessage call that has already returned, firing
\* later, leaves a subsequent request waiting on the same contextId as it was:
\* the context keeps its poller and the request's listener stays attached
C31_LateTimerLeavesLaterRequestAlone ==
  [][\A r \in Reqs :
       (rtimer[r] = "armed" /\ rtimer'[r] = "fired" /\ rpc[r] = "returned")
       => \A q \in Reqs \ {r} :
            (rpc[q] = "wait" /\ rctx[q] = rctx[r])
            => /\ pollers'[rctx[q]] = pollers[rctx[q]]
               /\ (q \in attached => q \in attached')]_vars

\* C32: whenever sendMessage returns a task, the state of that task is terminal
\* (completed, failed, canceled or rejected)
C32_SendReturnsTerminalTask ==
  \A r \in Reqs :
    (rop[r] = "send" /\ rpc[r] = "returned" /\ rresult[r].kind = "task")
    => rresult[r].task.state \in TerminalStates

\* C33: when reducing an event throws while sendMessage processes its queue, a
\* final status-update with state failed that carries the id of the active task
\* is published on the request's context, and the call fails with that error
C33_ProcessingErrorFailsActiveTask ==
  [][\A r \in Reqs :
       (rop[r] = "send" /\ rpc[r] = "wait" /\ rpc'[r] = "failed"
        /\ rresult'[r] = ErrorResult("store error"))
       => LET t == topic'[rctx[r]] IN
            /\ Len(t) = Len(topic[rctx[r]]) + 1
            /\ t[Len(t)].kind = "status-update" /\ t[Len(t)].final
            /\ t[Len(t)].state = "failed"
            /\ t[Len(t)].taskId = Head(qbuf[r]).taskId]_vars

\* C34: reducing an event of another task of the context leaves the Result
\* Manager's current task as it was and does not write this request's user
\* message into the persisted history of a task other than its own
C34_OtherTasksEventsAlterNothing ==
  [][\A r \in Reqs :
       (/\ rpc[r] = "wait" /\ cur[r] # NoTask /\ cur[r].id = etask[r].id
        /\ qbuf[r] # <<>> /\ qbuf'[r] = Tail(qbuf[r])
        /\ Head(qbuf[r]).kind \in {"task", "status-update"}
        /\ Head(qbuf[r]).taskId # etask[r].id)
       => /\ cur'[r] = cur[r]
          /\ \A t \in TaskIds \ {etask[r].id} :
               HasMsgId(load(store', t).history, rmsg[r].messageId)
               => HasMsgId(load(store, t).history, rmsg[r].messageId)]_vars

\* one history continues another / holds no messageId twice
IsPrefix(a, b) == Len(a) <= Len(b) /\ SubSeq(b, 1, Len(a)) = a
NoDuplicateIds(history) ==
  \A i \in 1..Len(history) : \A j \in 1..Len(history) :
    history[i].messageId = history[j].messageId => i = j

\* C35: a task's history is append-only and deduplicated by messageId: every
\* reduction step keeps the entries the persisted history had, in their order,
\* never stores a messageId twice, and the persisted history of a task starts
\* with the user message that originated it
C35_HistoryAppendOnly ==
  [][\A t \in TaskIds :
       LET old == load(store, t)
           new == load(store', t)
       IN new # NoTask =>
            /\ old # NoTask => IsPrefix(old.history, new.history)
            /\ NoDuplicateIds(new.history)
            /\ \A r \in Reqs :
                 (etask[r].id = t /\ rmsg[r].taskId = None)
                 => new.history[1].messageId = rmsg[r].messageId]_vars

\* C36: an artifact-update reduced by a manager that has to load the task from
\* the Task Store gives the artifacts the in-memory rule gives: on append the
\* parts are concatenated, name and description overwritten when provided, and
\* the metadata merged
C36_LoadedReductionSameAsHeld ==
  [][\A e \in StreamEvents :
       (/\ e.kind = "artifact-update"
        /\ stream'[1] = Append(stream[1], e)
        /\ cur[1] = NoTask
        /\ load(store, e.taskId) # NoTask)
       => /\ arts'[1] = applyArtifact(sarts[e.taskId], e)
          /\ sarts'[e.taskId] = arts'[1]]_vars

\* C37: once a sendMessageStream or resubscribe stream that had created its
\* Event Queue has ended, the queue is stopped and the listener the request
\* attached to the bus is gone
C37_EndedStreamLeavesNothing ==
  \A r \in Reqs :
    (rop[r] \in {"stream", "resub"} /\ rpc[r] = "returned" /\ rctx[r] # None)
    => (qstopped[r] /\ r \notin attached)

\* C38: save(task) leaves the task object it was handed as it was: after the
\* call the object still carries the file and data payloads of its artifact
\* parts and no cacheKey in their metadata
C38_SaveLeavesItsArgument ==
  tsave.pc # "idle" =>
    /\ tsave.arg = tsave.orig
    /\ \A a \in 1..Len(tsave.arg.artifacts) :
         \A i \in 1..Len(tsave.arg.artifacts[a].parts) :
           LET part == tsave.arg.artifacts[a].parts[i] IN
             part.kind # "text" => ~HasCacheKey(part.metadata)

\* what load(taskId) returns now is the task
Loadable == mem.stored /\ ~(mem.expiresAt # 0 /\ mem.now >= mem.expiresAt)

\* C39: in the in-memory Task Store a saved task is loadable exactly until
\* the TTL of its most recent save has elapsed, and for good when that save
\* had no TTL: an expiry scheduled by an earlier save does not remove it
C39_LoadableUntilLastTtl ==
  mem.saves > 0 =>
    /\ Loadable <=> (mem.lastTtl = 0 \/ mem.now < mem.lastAt + mem.lastTtl)
    /\ mem.loaded = "task" => Loadable
    /\ mem.loaded = "undefined" => ~Loadable

====
